---- MODULE Spec2Model ----
(***************************************************************************)
(* js-kanji: the compress / decompress entry points of index.js and        *)
(* semantic-kanji.js, the character tier (js-kanji-compressor.js,          *)
(* js-kanji-decompressor.js, dictionaries/kanji-dict.js) and the pattern   *)
(* tier (semantic-patterns.js), as a state machine: a session takes a      *)
(* source text and applies the library's operations to it.                 *)
(***************************************************************************)
EXTENDS Integers, Sequences, FiniteSets, TLC

VARIABLES
    phase,          \* what the session has done so far
    src,            \* the source text
    compressCall,   \* the compress call made: entry point and method
    doc,            \* its outcome
    decompressCall, \* the decompress call made: entry point, method, options
    out,            \* its outcome
    again,          \* the outcome of decompressing out once more
    stage,          \* the formatter stage applied to src
    staged,         \* its output
    detected,       \* the outcome of detectCompressionMethod on doc
    call,           \* a call of one function outside a session: its name and arguments
    ret,            \* what it returned or threw
    self,           \* this.config of a SemanticKanjiModule instance that is called repeatedly
    calls,          \* the calls made on it so far, each with its outcome
    pc,             \* the step a function run step by step has reached
    work            \* its local variables at that step

session == <<phase, src, compressCall, doc, decompressCall, out, again, stage, staged, detected>>
single == <<call, ret>>
repeated == <<self, calls>>
stepwise == <<pc, work>>
aside == <<single, repeated, stepwise>>
vars == <<session, aside>>

RECURSIVE Call(_, _)

(***************************************************************************)
(* Characters are UTF-16 code units (JavaScript string elements); a text   *)
(* is a sequence of them.                                                  *)
(***************************************************************************)

\* JavaScript's \s: white space and line terminators.
IsSpace(c) ==
    \/ c \in {9, 10, 11, 12, 13, 32, 160, 5760, 8232, 8233, 8239, 8287, 12288, 65279}
    \/ (c >= 8192 /\ c <= 8202)

\* JavaScript's \w (no unicode flag): [A-Za-z0-9_].
IsWord(c) ==
    \/ (c >= 48 /\ c <= 57)
    \/ (c >= 65 /\ c <= 90)
    \/ (c >= 97 /\ c <= 122)
    \/ c = 95

\* JavaScript's \d.
IsDigit(c) == c >= 48 /\ c <= 57

\* What "." does not match: the line terminators.
IsLineTerminator(c) == c \in {10, 13, 8232, 8233}

\* The character classes the regular expressions of the sources use.
InClass(cls, c) ==
    CASE cls = "s" -> IsSpace(c)
      [] cls = "nots" -> ~IsSpace(c)
      [] cls = "any" -> TRUE
      [] cls = "dot" -> ~IsLineTerminator(c)
      [] cls = "d" -> IsDigit(c)
      [] cls = "w" -> IsWord(c)
      [] cls = "newline" -> c \in {13, 10}
      \* [=+\-*/%&|^<>!?:;,{}[\]()]
      [] cls = "punct" -> c \in {61, 43, 45, 42, 47, 37, 38, 124, 94, 60, 62, 33, 63,
                                 58, 59, 44, 123, 125, 91, 93, 40, 41}
      \* [{([,;]
      [] cls = "open" -> c \in {123, 40, 91, 44, 59}
      \* [})\]]
      [] cls = "close" -> c \in {125, 41, 93}
      \* [}\]]
      [] cls = "closebb" -> c \in {125, 93}
      \* [^\/]
      [] cls = "notslash" -> c # 47
      \* [^{}]
      [] cls = "notbrace" -> c \notin {123, 125}
      \* [\+\-\*\/\%\=\>\<\!\&\|\^\?]
      [] cls = "operator" -> c \in {43, 45, 42, 47, 37, 61, 62, 60, 33, 38, 124, 94, 63}
      \* [-\/\\^$*+?.()|[\]{}]
      [] cls = "special" -> c \in {45, 47, 92, 94, 36, 42, 43, 63, 46, 40, 41, 124,
                                   91, 93, 123, 125}
      \* [.*+?^${}()|[\]\\]
      [] cls = "special2" -> c \in {46, 42, 43, 63, 94, 36, 123, 125, 40, 41, 124,
                                    91, 93, 92}
      \* [\u4E00-\u9FFF\u3040-\u309F\u30A0-\u30FF]
      [] cls = "cjkkana" -> \/ (c >= 19968 /\ c <= 40959)
                            \/ (c >= 12352 /\ c <= 12447)
                            \/ (c >= 12448 /\ c <= 12543)
      [] OTHER -> FALSE

(***************************************************************************)
(* A regular expression is a sequence of items, matched left to right with *)
(* backtracking as the JavaScript engine does.                             *)
(***************************************************************************)
Lit(s) == [k |-> "lit", s |-> s]
One(cls) == [k |-> "cls", c |-> cls, min |-> 1, many |-> FALSE, lazy |-> FALSE]
Opt(cls) == [k |-> "cls", c |-> cls, min |-> 0, many |-> FALSE, lazy |-> FALSE]
Star(cls) == [k |-> "cls", c |-> cls, min |-> 0, many |-> TRUE, lazy |-> FALSE]
Plus(cls) == [k |-> "cls", c |-> cls, min |-> 1, many |-> TRUE, lazy |-> FALSE]
TwoPlus(cls) == [k |-> "cls", c |-> cls, min |-> 2, many |-> TRUE, lazy |-> FALSE]
LazyStar(cls) == [k |-> "cls", c |-> cls, min |-> 0, many |-> TRUE, lazy |-> TRUE]
Alt(alts) == [k |-> "alt", alts |-> alts]
WordB == [k |-> "wb"]
Bol == [k |-> "bol"]
EolM == [k |-> "eolm"]
Eoi == [k |-> "eoi"]
\* (?=\n|$) without the multiline flag
AheadNlOrEnd == [k |-> "ahead"]

NoMatch == <<0>>

Matched(r) == r = <<>> \/ r[1] # 0

\* A for loop: acc = Op(acc, i) for i = lo, lo + 1, ..., hi.  The range is cut
\* in two halves, the first computed before the second starts, so that the
\* evaluation stays shallow however long the range is.

Computed(v) == v = v

\* The array with the elements f[1], ..., f[n], each computed once.
Array(f) == f \o <<>>

RECURSIVE FoldRange(_, _, _, _)
FoldRange(Op(_, _), acc, lo, hi) ==
    IF lo > hi THEN acc
    ELSE IF lo = hi THEN Op(acc, lo)
    ELSE LET mid == (lo + hi) \div 2
             left == FoldRange(Op, acc, lo, mid)
         IN  IF Computed(left) THEN FoldRange(Op, left, mid + 1, hi) ELSE acc

\* The first i in lo..hi with P(i), or 0.
FirstFrom(P(_), lo, hi) ==
    IF \E i \in lo..hi : P(i)
    THEN CHOOSE i \in lo..hi : P(i) /\ \A j \in lo..(i - 1) : ~P(j)
    ELSE 0

\* The least (last = FALSE) or greatest element of a non-empty set of numbers.
Extreme(set, last) ==
    CHOOSE n \in set : \A m \in set : IF last THEN m <= n ELSE n <= m

WordAt(s, p) == p >= 1 /\ p <= Len(s) /\ IsWord(s[p])

LitAt(s, p, l) ==
    /\ p + Len(l) - 1 <= Len(s)
    /\ SubSeq(s, p, p + Len(l) - 1) = l

\* The number of characters of class cls from position p on, at most cap.
RunLen(cls, s, p, cap) ==
    LET last == IF p + cap - 1 < Len(s) THEN p + cap - 1 ELSE Len(s)
        stop == FirstFrom(LAMBDA j : ~InClass(cls, s[j]), p, last)
    IN  IF stop = 0 THEN last - p + 1 ELSE stop - p

\* The matcher is the backtracking one of the JavaScript engines.  Its state:
\* i, the item to match next; p, the position in the text; ends, the end
\* positions (one past the last character) of the items matched so far;
\* stack, the choices left open, innermost last; res: "run", "ok" or "no".
\* An open choice is the item, its position, the ends before it and the
\* lengths still to try for it: next, next + step, ..., last for a
\* repetition, lens[next], ..., lens[last] for an alternation.
Advance(m, n) ==
    [m EXCEPT !.i = m.i + 1, !.p = m.p + n, !.ends = Append(m.ends, m.p + n)]

Choice(m, next, last, step, lens) ==
    [i |-> m.i, p |-> m.p, ends |-> m.ends, next |-> next, last |-> last, step |-> step, lens |-> lens]

Push(m, c) == [m EXCEPT !.stack = Append(m.stack, c)]

\* The innermost open choice takes its next length.
Backtrack(m) ==
    IF m.stack = <<>> THEN [m EXCEPT !.res = "no"]
    ELSE LET c == m.stack[Len(m.stack)]
             n == IF c.lens = <<>> THEN c.next ELSE c.lens[c.next]
             below == SubSeq(m.stack, 1, Len(m.stack) - 1)
         IN  [i |-> c.i + 1, p |-> c.p + n, ends |-> Append(c.ends, c.p + n),
              stack |-> IF c.next = c.last THEN below
                        ELSE Append(below, [c EXCEPT !.next = c.next + c.step]),
              res |-> "run"]

\* One step of the matcher of re on s.  A repetition tries its counts in
\* order (greedy: longest first, lazy: shortest first), an alternation its
\* alternatives in order.
MatchStep(re, s, m) ==
    IF m.res # "run" THEN m
    ELSE IF m.i > Len(re) THEN [m EXCEPT !.res = "ok"]
    ELSE LET it == re[m.i]
             p == m.p
             Zero(ok) == IF ok THEN Advance(m, 0) ELSE Call("Backtrack", <<m>>)
         IN  CASE it.k = "lit" -> IF LitAt(s, p, it.s) THEN Advance(m, Len(it.s)) ELSE Call("Backtrack", <<m>>)
               [] it.k = "cls" ->
                    LET run == Call("RunLen", <<it.c, s, p, IF it.many THEN Len(s) ELSE 1>>)
                    IN  IF run < it.min THEN Call("Backtrack", <<m>>)
                        ELSE IF run = it.min THEN Advance(m, run)
                        ELSE IF it.lazy
                        THEN Advance(Push(m, Choice(m, it.min + 1, run, 1, <<>>)), it.min)
                        ELSE Advance(Push(m, Choice(m, run - 1, it.min, -1, <<>>)), run)
               [] it.k = "alt" ->
                    LET fit == SelectSeq(it.alts, LAMBDA l : LitAt(s, p, l))
                        lens == Array([j \in 1..Len(fit) |-> Len(fit[j])])
                    IN  IF lens = <<>> THEN Call("Backtrack", <<m>>)
                        ELSE IF Len(lens) = 1 THEN Advance(m, lens[1])
                        ELSE Advance(Push(m, Choice(m, 2, Len(lens), 1, lens)), lens[1])
               [] it.k = "wb" -> Zero(WordAt(s, p - 1) # WordAt(s, p))
               [] it.k = "bol" -> Zero(p = 1 \/ IsLineTerminator(s[p - 1]))
               [] it.k = "eolm" -> Zero(p = Len(s) + 1 \/ IsLineTerminator(s[p]))
               [] it.k = "eoi" -> Zero(p = Len(s) + 1)
               [] it.k = "ahead" -> Zero(p = Len(s) + 1 \/ s[p] = 10)
               [] OTHER -> [m EXCEPT !.res = "no"]

\* The matcher run from state m until it stops, n steps at a time.
MatchRun(re, s, m, n) ==
    LET after == FoldRange(LAMBDA st, k : Call("MatchStep", <<re, s, st>>), m, 1, n)
    IN  IF after.res # "run" THEN after ELSE Call("MatchRun", <<re, s, after, 8 * n>>)

\* The regular expression matched at position p exactly: the sequence of the
\* ends of its items, or NoMatch.
MatchAt(re, s, p) ==
    LET start == [i |-> 1, p |-> p, ends |-> <<>>, stack |-> <<>>, res |-> "run"]
        first == Call("MatchStep", <<re, s, start>>)
        final == IF first.res # "run" THEN first ELSE Call("MatchRun", <<re, s, first, 8>>)
    IN  IF final.res = "ok" THEN final.ends ELSE NoMatch

\* The end (one past the last character) of the match ends found at q.
MatchEnd(ends, q) == IF ends = <<>> THEN q ELSE ends[Len(ends)]

\* RegExp.prototype.exec from position p: the first position >= p where re
\* matches, or 0.
FindFrom(re, s, p) == FirstFrom(LAMBDA q : Matched(Call("MatchAt", <<re, s, q>>)), p, Len(s) + 1)

\* RegExp.prototype.test
Test(re, s) == Call("FindFrom", <<re, s, 1>>) # 0

\* The first item of re that consumes text is a literal (zero-width items
\* skipped): its first character, or 0.
RECURSIVE FirstChar(_, _)
FirstChar(re, i) ==
    IF i > Len(re) THEN 0
    ELSE IF re[i].k = "lit" THEN (IF Len(re[i].s) > 0 THEN re[i].s[1] ELSE FirstChar(re, i + 1))
    ELSE IF re[i].k \in {"wb", "bol"} THEN FirstChar(re, i + 1)
    ELSE 0

\* No match is possible when the literal re must start with does not occur.
CannotMatch(re, s) ==
    LET c == FirstChar(re, 1)
    IN  c # 0 /\ \A j \in 1..Len(s) : s[j] # c

ScanStep(st, q, ends) ==
    IF ~Matched(ends) THEN st
    ELSE [found |-> Append(st.found, <<q, ends>>),
          next |-> IF MatchEnd(ends, q) > q THEN MatchEnd(ends, q) ELSE q + 1]

\* The matches of a global regular expression in s, left to right and without
\* overlap, each as <<q, ends>>: q the position of the match, ends the ends of
\* its items.  After an empty match the scan moves on by one character.
ScanAll(re, s) ==
    LET Step(st, q) ==
            IF q < st.next THEN st
            ELSE ScanStep(st, q, Call("MatchAt", <<re, s, q>>))
    IN  IF CannotMatch(re, s) THEN <<>>
        ELSE FoldRange(Step, [found |-> <<>>, next |-> 1], 1, Len(s) + 1).found

\* String.prototype.replace with a global regular expression and a function:
\* every match replaced by With(q, ends).
ReplaceWith(s, re, With(_, _)) ==
    LET found == Call("ScanAll", <<re, s>>)
        From(i) == IF i = 1 THEN 1 ELSE MatchEnd(found[i - 1][2], found[i - 1][1])
    IN  FoldRange(LAMBDA acc, i : acc \o SubSeq(s, From(i), found[i][1] - 1)
                                      \o With(found[i][1], found[i][2]),
                  <<>>, 1, Len(found))
        \o SubSeq(s, From(Len(found) + 1), Len(s))

\* A replacement string: literal parts and group references.  Grp(a, b) is the
\* text the items a..b of the expression matched.
Txt(s) == [t |-> "txt", s |-> s]
Grp(a, b) == [t |-> "grp", a |-> a, b |-> b]

ItemStart(ends, p, a) == IF a = 1 THEN p ELSE ends[a - 1]

RECURSIVE Expand(_, _, _, _, _)
Expand(rep, j, s, p, ends) ==
    IF j > Len(rep) THEN <<>>
    ELSE (IF rep[j].t = "txt" THEN rep[j].s
          ELSE SubSeq(s, ItemStart(ends, p, rep[j].a), ends[rep[j].b] - 1))
         \o Expand(rep, j + 1, s, p, ends)

\* String.prototype.replace with a global regular expression and a
\* replacement whose $n are written as Grp.
ReplaceAll(s, re, rep) == ReplaceWith(s, re, LAMBDA q, ends : Expand(rep, 1, s, q, ends))

\* String.prototype.replace with a regular expression without the g flag:
\* the first match only.
ReplaceFirst(s, re, rep) ==
    LET q == Call("FindFrom", <<re, s, 1>>)
        ends == Call("MatchAt", <<re, s, q>>)
    IN  IF q = 0 THEN s
        ELSE SubSeq(s, 1, q - 1) \o Expand(rep, 1, s, q, ends)
             \o SubSeq(s, MatchEnd(ends, q), Len(s))

\* String.prototype.indexOf as a position (0: absent).
IndexOfFrom(s, l, p) == FirstFrom(LAMBDA q : LitAt(s, q, l), p, Len(s) - Len(l) + 1)

Includes(s, l) == Call("IndexOfFrom", <<s, l, 1>>) # 0

\* String.prototype.split with a non-empty separator
Split(s, sep) ==
    LET Step(st, q) ==
            IF q < st.next \/ ~LitAt(s, q, sep) THEN st
            ELSE [parts |-> Append(st.parts, SubSeq(s, st.next, q - 1)),
                  next |-> q + Len(sep)]
        st == FoldRange(Step, [parts |-> <<>>, next |-> 1], 1, Len(s))
    IN  Append(st.parts, SubSeq(s, st.next, Len(s)))

\* Array.prototype.join
Join(parts, sep) ==
    FoldRange(LAMBDA acc, i : IF i = 1 THEN parts[1] ELSE acc \o sep \o parts[i],
              <<>>, 1, Len(parts))

\* String.prototype.trimStart, trimEnd, trim
TrimStart(s) ==
    LET first == FirstFrom(LAMBDA j : ~IsSpace(s[j]), 1, Len(s))
    IN  IF first = 0 THEN <<>> ELSE SubSeq(s, first, Len(s))

TrimEnd(s) ==
    LET back == FirstFrom(LAMBDA j : ~IsSpace(s[Len(s) + 1 - j]), 1, Len(s))
    IN  IF back = 0 THEN <<>> ELSE SubSeq(s, 1, Len(s) + 1 - back)

Trim(s) == Call("TrimEnd", <<Call("TrimStart", <<s>>)>>)

StartsWith(s, l) == LitAt(s, 1, l)

EndsWith(s, l) == Len(l) <= Len(s) /\ SubSeq(s, Len(s) - Len(l) + 1, Len(s)) = l


(***************************************************************************)
(* Objects and options                                                     *)
(***************************************************************************)

\* { ...a, ...b }: the properties of both, b's values winning.
Merge(a, b) ==
    [k \in (DOMAIN a) \cup (DOMAIN b) |-> IF k \in DOMAIN b THEN b[k] ELSE a[k]]

\* Object.entries of an object literal given as its key: value pairs in source
\* order: a key written twice keeps its first position and its last value.
ObjectEntries(literal) ==
    LET n == Len(literal)
        First(i) == \A j \in 1..(i - 1) : literal[j][1] # literal[i][1]
        LastOf(i) == CHOOSE j \in i..n :
                        /\ literal[j][1] = literal[i][1]
                        /\ \A h \in (j + 1)..n : literal[h][1] # literal[i][1]
        keys == SelectSeq(Array([i \in 1..n |-> i]), First)
    IN  Array([k \in 1..Len(keys) |-> <<literal[keys[k]][1], literal[LastOf(keys[k])][2]>>])

\* Array.prototype.sort with a comparator on the length of component c of each
\* pair; the sort is stable.  desc: longest first.
SortByLength(entries, c, desc) ==
    LET n == Len(entries)
        lens == {Len(entries[i][c]) : i \in 1..n}
        maxLen == IF lens = {} THEN 0 ELSE CHOOSE l \in lens : \A m \in lens : m <= l
        OfLen(l) == SelectSeq(entries, LAMBDA e : Len(e[c]) = l)
        Down[k \in 0..maxLen] ==
            IF k = 0 THEN OfLen(maxLen) ELSE Down[k - 1] \o OfLen(maxLen - k)
        Up[k \in 0..maxLen] ==
            IF k = 0 THEN OfLen(0) ELSE Up[k - 1] \o OfLen(k)
    IN  IF desc THEN Down[maxLen] ELSE Up[maxLen]

(***************************************************************************)
(* dictionaries/kanji-dict.js                                              *)
(***************************************************************************)
kanjiDictLiteral ==
<<
    \* line 10: function -> U+95A2
    <<<<102, 117, 110, 99, 116, 105, 111, 110>>, <<38306>>>>,
    \* line 11: return -> U+8FD4
    <<<<114, 101, 116, 117, 114, 110>>, <<36820>>>>,
    \* line 12: const -> U+5B9A
    <<<<99, 111, 110, 115, 116>>, <<23450>>>>,
    \* line 13: let -> U+5909
    <<<<108, 101, 116>>, <<22793>>>>,
    \* line 14: var -> U+6570
    <<<<118, 97, 114>>, <<25968>>>>,
    \* line 15: if -> U+6761
    <<<<105, 102>>, <<26465>>>>,
    \* line 16: else -> U+4ED6
    <<<<101, 108, 115, 101>>, <<20182>>>>,
    \* line 17: for -> U+7E70
    <<<<102, 111, 114>>, <<32368>>>>,
    \* line 18: while -> U+9593
    <<<<119, 104, 105, 108, 101>>, <<38291>>>>,
    \* line 19: try -> U+8A66
    <<<<116, 114, 121>>, <<35430>>>>,
    \* line 20: catch -> U+6355
    <<<<99, 97, 116, 99, 104>>, <<25429>>>>,
    \* line 21: throw -> U+6295
    <<<<116, 104, 114, 111, 119>>, <<25237>>>>,
    \* line 22: await -> U+5F85
    <<<<97, 119, 97, 105, 116>>, <<24453>>>>,
    \* line 23: async -> U+975E
    <<<<97, 115, 121, 110, 99>>, <<38750>>>>,
    \* line 24: class -> U+985E
    <<<<99, 108, 97, 115, 115>>, <<39006>>>>,
    \* line 25: import -> U+5165
    <<<<105, 109, 112, 111, 114, 116>>, <<20837>>>>,
    \* line 26: export -> U+51FA
    <<<<101, 120, 112, 111, 114, 116>>, <<20986>>>>,
    \* line 27: default -> U+65E2
    <<<<100, 101, 102, 97, 117, 108, 116>>, <<26082>>>>,
    \* line 28: new -> U+65B0
    <<<<110, 101, 119>>, <<26032>>>>,
    \* line 29: this -> U+81EA
    <<<<116, 104, 105, 115>>, <<33258>>>>,
    \* line 30: true -> U+771F
    <<<<116, 114, 117, 101>>, <<30495>>>>,
    \* line 31: false -> U+507D
    <<<<102, 97, 108, 115, 101>>, <<20605>>>>,
    \* line 32: null -> U+7121
    <<<<110, 117, 108, 108>>, <<28961>>>>,
    \* line 33: undefined -> U+672A
    <<<<117, 110, 100, 101, 102, 105, 110, 101, 100>>, <<26410>>>>,
    \* line 34: super -> U+89AA
    <<<<115, 117, 112, 101, 114>>, <<35242>>>>,
    \* line 35: static -> U+9759
    <<<<115, 116, 97, 116, 105, 99>>, <<38745>>>>,
    \* line 36: extends -> U+7D99
    <<<<101, 120, 116, 101, 110, 100, 115>>, <<32153>>>>,
    \* line 37: implements -> U+5B9F
    <<<<105, 109, 112, 108, 101, 109, 101, 110, 116, 115>>, <<23455>>>>,
    \* line 40: Object -> U+7269
    <<<<79, 98, 106, 101, 99, 116>>, <<29289>>>>,
    \* line 41: Array -> U+5217
    <<<<65, 114, 114, 97, 121>>, <<21015>>>>,
    \* line 42: String -> U+6587
    <<<<83, 116, 114, 105, 110, 103>>, <<25991>>>>,
    \* line 43: Number -> U+6570
    <<<<78, 117, 109, 98, 101, 114>>, <<25968>>>>,
    \* line 44: Boolean -> U+8AD6
    <<<<66, 111, 111, 108, 101, 97, 110>>, <<35542>>>>,
    \* line 45: Date -> U+65E5
    <<<<68, 97, 116, 101>>, <<26085>>>>,
    \* line 46: Math -> U+7B97
    <<<<77, 97, 116, 104>>, <<31639>>>>,
    \* line 47: console -> U+793A
    <<<<99, 111, 110, 115, 111, 108, 101>>, <<31034>>>>,
    \* line 48: log -> U+9332
    <<<<108, 111, 103>>, <<37682>>>>,
    \* line 49: error -> U+8AA4
    <<<<101, 114, 114, 111, 114>>, <<35492>>>>,
    \* line 50: warn -> U+8B66
    <<<<119, 97, 114, 110>>, <<35686>>>>,
    \* line 51: info -> U+77E5
    <<<<105, 110, 102, 111>>, <<30693>>>>,
    \* line 52: JSON -> U+63DB
    <<<<74, 83, 79, 78>>, <<25563>>>>,
    \* line 53: Map -> U+56F3
    <<<<77, 97, 112>>, <<22259>>>>,
    \* line 54: Set -> U+7D44
    <<<<83, 101, 116>>, <<32068>>>>,
    \* line 55: Symbol -> U+7B26
    <<<<83, 121, 109, 98, 111, 108>>, <<31526>>>>,
    \* line 56: RegExp -> U+5F0F
    <<<<82, 101, 103, 69, 120, 112>>, <<24335>>>>,
    \* line 59: require -> U+8981
    <<<<114, 101, 113, 117, 105, 114, 101>>, <<35201>>>>,
    \* line 60: module -> U+7D44
    <<<<109, 111, 100, 117, 108, 101>>, <<32068>>>>,
    \* line 61: exports -> U+9001
    <<<<101, 120, 112, 111, 114, 116, 115>>, <<36865>>>>,
    \* line 62: process -> U+904E
    <<<<112, 114, 111, 99, 101, 115, 115>>, <<36942>>>>,
    \* line 63: global -> U+5168
    <<<<103, 108, 111, 98, 97, 108>>, <<20840>>>>,
    \* line 64: Buffer -> U+7DE9
    <<<<66, 117, 102, 102, 101, 114>>, <<32233>>>>,
    \* line 65: setTimeout -> U+9045
    <<<<115, 101, 116, 84, 105, 109, 101, 111, 117, 116>>, <<36933>>>>,
    \* line 66: setInterval -> U+5468
    <<<<115, 101, 116, 73, 110, 116, 101, 114, 118, 97, 108>>, <<21608>>>>,
    \* line 67: clearTimeout -> U+53D6U+6D88
    <<<<99, 108, 101, 97, 114, 84, 105, 109, 101, 111, 117, 116>>, <<21462, 28040>>>>,
    \* line 68: clearInterval -> U+505CU+6B62
    <<<<99, 108, 101, 97, 114, 73, 110, 116, 101, 114, 118, 97, 108>>, <<20572, 27490>>>>,
    \* line 69: __dirname -> U+672CU+51E6
    <<<<95, 95, 100, 105, 114, 110, 97, 109, 101>>, <<26412, 20966>>>>,
    \* line 70: __filename -> U+672CU+540D
    <<<<95, 95, 102, 105, 108, 101, 110, 97, 109, 101>>, <<26412, 21517>>>>,
    \* line 73: fs -> U+66F8
    <<<<102, 115>>, <<26360>>>>,
    \* line 74: readFile -> U+8AAD
    <<<<114, 101, 97, 100, 70, 105, 108, 101>>, <<35501>>>>,
    \* line 75: writeFile -> U+4FDD
    <<<<119, 114, 105, 116, 101, 70, 105, 108, 101>>, <<20445>>>>,
    \* line 76: mkdir -> U+5275
    <<<<109, 107, 100, 105, 114>>, <<21109>>>>,
    \* line 77: stat -> U+72B6
    <<<<115, 116, 97, 116>>, <<29366>>>>,
    \* line 78: path -> U+9053
    <<<<112, 97, 116, 104>>, <<36947>>>>,
    \* line 79: join -> U+7D50
    <<<<106, 111, 105, 110>>, <<32080>>>>,
    \* line 80: readdir -> U+5217U+6319
    <<<<114, 101, 97, 100, 100, 105, 114>>, <<21015, 25369>>>>,
    \* line 81: unlink -> U+524AU+9664
    <<<<117, 110, 108, 105, 110, 107>>, <<21066, 38500>>>>,
    \* line 82: rename -> U+6539U+540D
    <<<<114, 101, 110, 97, 109, 101>>, <<25913, 21517>>>>,
    \* line 83: stream -> U+6D41
    <<<<115, 116, 114, 101, 97, 109>>, <<27969>>>>,
    \* line 84: pipe -> U+7BA1
    <<<<112, 105, 112, 101>>, <<31649>>>>,
    \* line 87: http -> U+7DB2
    <<<<104, 116, 116, 112>>, <<32178>>>>,
    \* line 88: https -> U+7DB2U+5B89
    <<<<104, 116, 116, 112, 115>>, <<32178, 23433>>>>,
    \* line 89: request -> U+6C42
    <<<<114, 101, 113, 117, 101, 115, 116>>, <<27714>>>>,
    \* line 90: response -> U+7B54
    <<<<114, 101, 115, 112, 111, 110, 115, 101>>, <<31572>>>>,
    \* line 91: server -> U+4F9B
    <<<<115, 101, 114, 118, 101, 114>>, <<20379>>>>,
    \* line 92: client -> U+5BA2
    <<<<99, 108, 105, 101, 110, 116>>, <<23458>>>>,
    \* line 93: router -> U+8DEF
    <<<<114, 111, 117, 116, 101, 114>>, <<36335>>>>,
    \* line 94: route -> U+7D4C
    <<<<114, 111, 117, 116, 101>>, <<32076>>>>,
    \* line 95: get -> U+53D6
    <<<<103, 101, 116>>, <<21462>>>>,
    \* line 96: post -> U+9001
    <<<<112, 111, 115, 116>>, <<36865>>>>,
    \* line 97: put -> U+7F6E
    <<<<112, 117, 116>>, <<32622>>>>,
    \* line 98: delete -> U+6D88
    <<<<100, 101, 108, 101, 116, 101>>, <<28040>>>>,
    \* line 99: fetch -> U+7372
    <<<<102, 101, 116, 99, 104>>, <<29554>>>>,
    \* line 100: headers -> U+982D
    <<<<104, 101, 97, 100, 101, 114, 115>>, <<38957>>>>,
    \* line 101: status -> U+614B
    <<<<115, 116, 97, 116, 117, 115>>, <<24907>>>>,
    \* line 102: method -> U+6CD5
    <<<<109, 101, 116, 104, 111, 100>>, <<27861>>>>,
    \* line 103: protocol -> U+898F
    <<<<112, 114, 111, 116, 111, 99, 111, 108>>, <<35215>>>>,
    \* line 106: express -> U+901F
    <<<<101, 120, 112, 114, 101, 115, 115>>, <<36895>>>>,
    \* line 107: app -> U+5FDC
    <<<<97, 112, 112>>, <<24540>>>>,
    \* line 108: middleware -> U+4E2D
    <<<<109, 105, 100, 100, 108, 101, 119, 97, 114, 101>>, <<20013>>>>,
    \* line 109: static -> U+56FA
    <<<<115, 116, 97, 116, 105, 99>>, <<22266>>>>,
    \* line 110: session -> U+4F1A
    <<<<115, 101, 115, 115, 105, 111, 110>>, <<20250>>>>,
    \* line 111: cookie -> U+70B9
    <<<<99, 111, 111, 107, 105, 101>>, <<28857>>>>,
    \* line 112: body -> U+4F53
    <<<<98, 111, 100, 121>>, <<20307>>>>,
    \* line 113: params -> U+5F15
    <<<<112, 97, 114, 97, 109, 115>>, <<24341>>>>,
    \* line 114: query -> U+554F
    <<<<113, 117, 101, 114, 121>>, <<21839>>>>,
    \* line 115: router -> U+8DEF
    <<<<114, 111, 117, 116, 101, 114>>, <<36335>>>>,
    \* line 116: controller -> U+5236
    <<<<99, 111, 110, 116, 114, 111, 108, 108, 101, 114>>, <<21046>>>>,
    \* line 117: view -> U+898B
    <<<<118, 105, 101, 119>>, <<35211>>>>,
    \* line 118: render -> U+753B
    <<<<114, 101, 110, 100, 101, 114>>, <<30011>>>>,
    \* line 119: redirect -> U+8EE2
    <<<<114, 101, 100, 105, 114, 101, 99, 116>>, <<36578>>>>,
    \* line 120: next -> U+6B21
    <<<<110, 101, 120, 116>>, <<27425>>>>,
    \* line 123: React -> U+53CD
    <<<<82, 101, 97, 99, 116>>, <<21453>>>>,
    \* line 124: useState -> U+72B6U+614B
    <<<<117, 115, 101, 83, 116, 97, 116, 101>>, <<29366, 24907>>>>,
    \* line 125: useEffect -> U+52B9U+679C
    <<<<117, 115, 101, 69, 102, 102, 101, 99, 116>>, <<21177, 26524>>>>,
    \* line 126: props -> U+5C5EU+6027
    <<<<112, 114, 111, 112, 115>>, <<23646, 24615>>>>,
    \* line 127: component -> U+90E8U+54C1
    <<<<99, 111, 109, 112, 111, 110, 101, 110, 116>>, <<37096, 21697>>>>,
    \* line 128: render -> U+63CFU+753B
    <<<<114, 101, 110, 100, 101, 114>>, <<25551, 30011>>>>,
    \* line 129: Vue -> U+666F
    <<<<86, 117, 101>>, <<26223>>>>,
    \* line 130: Angular -> U+89D2
    <<<<65, 110, 103, 117, 108, 97, 114>>, <<35282>>>>,
    \* line 131: Svelte -> U+8EFD
    <<<<83, 118, 101, 108, 116, 101>>, <<36605>>>>,
    \* line 132: template -> U+578BU+7D19
    <<<<116, 101, 109, 112, 108, 97, 116, 101>>, <<22411, 32025>>>>,
    \* line 133: style -> U+69D8U+5F0F
    <<<<115, 116, 121, 108, 101>>, <<27096, 24335>>>>,
    \* line 136: database -> U+5EAB
    <<<<100, 97, 116, 97, 98, 97, 115, 101>>, <<24235>>>>,
    \* line 137: connect -> U+63A5
    <<<<99, 111, 110, 110, 101, 99, 116>>, <<25509>>>>,
    \* line 138: collection -> U+96C6
    <<<<99, 111, 108, 108, 101, 99, 116, 105, 111, 110>>, <<38598>>>>,
    \* line 139: document -> U+4EF6
    <<<<100, 111, 99, 117, 109, 101, 110, 116>>, <<20214>>>>,
    \* line 140: model -> U+578B
    <<<<109, 111, 100, 101, 108>>, <<22411>>>>,
    \* line 141: schema -> U+56F3
    <<<<115, 99, 104, 101, 109, 97>>, <<22259>>>>,
    \* line 142: find -> U+63A2
    <<<<102, 105, 110, 100>>, <<25506>>>>,
    \* line 143: findOne -> U+691C
    <<<<102, 105, 110, 100, 79, 110, 101>>, <<26908>>>>,
    \* line 144: findById -> U+7D22
    <<<<102, 105, 110, 100, 66, 121, 73, 100>>, <<32034>>>>,
    \* line 145: save -> U+5B58
    <<<<115, 97, 118, 101>>, <<23384>>>>,
    \* line 146: update -> U+66F4
    <<<<117, 112, 100, 97, 116, 101>>, <<26356>>>>,
    \* line 147: remove -> U+9664
    <<<<114, 101, 109, 111, 118, 101>>, <<38500>>>>,
    \* line 148: create -> U+9020
    <<<<99, 114, 101, 97, 116, 101>>, <<36896>>>>,
    \* line 149: delete -> U+524A
    <<<<100, 101, 108, 101, 116, 101>>, <<21066>>>>,
    \* line 150: query -> U+8A62
    <<<<113, 117, 101, 114, 121>>, <<35426>>>>,
    \* line 151: select -> U+9078
    <<<<115, 101, 108, 101, 99, 116>>, <<36984>>>>,
    \* line 152: where -> U+51E6
    <<<<119, 104, 101, 114, 101>>, <<20966>>>>,
    \* line 153: aggregate -> U+96C6U+8A08
    <<<<97, 103, 103, 114, 101, 103, 97, 116, 101>>, <<38598, 35336>>>>,
    \* line 154: index -> U+7D22U+5F15
    <<<<105, 110, 100, 101, 120>>, <<32034, 24341>>>>,
    \* line 155: transaction -> U+53D6U+5F15
    <<<<116, 114, 97, 110, 115, 97, 99, 116, 105, 111, 110>>, <<21462, 24341>>>>,
    \* line 156: commit -> U+78BAU+5B9A
    <<<<99, 111, 109, 109, 105, 116>>, <<30906, 23450>>>>,
    \* line 157: rollback -> U+5DFBU+623B
    <<<<114, 111, 108, 108, 98, 97, 99, 107>>, <<24059, 25147>>>>,
    \* line 160: mongoose -> U+734F
    <<<<109, 111, 110, 103, 111, 111, 115, 101>>, <<29519>>>>,
    \* line 161: ObjectId -> U+7269U+756A
    <<<<79, 98, 106, 101, 99, 116, 73, 100>>, <<29289, 30058>>>>,
    \* line 162: populate -> U+5145
    <<<<112, 111, 112, 117, 108, 97, 116, 101>>, <<20805>>>>,
    \* line 165: table -> U+8868
    <<<<116, 97, 98, 108, 101>>, <<34920>>>>,
    \* line 166: join -> U+7D50U+5408
    <<<<106, 111, 105, 110>>, <<32080, 21512>>>>,
    \* line 167: inner -> U+5185
    <<<<105, 110, 110, 101, 114>>, <<20869>>>>,
    \* line 168: outer -> U+5916
    <<<<111, 117, 116, 101, 114>>, <<22806>>>>,
    \* line 169: left -> U+5DE6
    <<<<108, 101, 102, 116>>, <<24038>>>>,
    \* line 170: right -> U+53F3
    <<<<114, 105, 103, 104, 116>>, <<21491>>>>,
    \* line 171: group -> U+7FA4
    <<<<103, 114, 111, 117, 112>>, <<32676>>>>,
    \* line 172: order -> U+9806
    <<<<111, 114, 100, 101, 114>>, <<38918>>>>,
    \* line 173: by -> U+5225
    <<<<98, 121>>, <<21029>>>>,
    \* line 174: having -> U+6301
    <<<<104, 97, 118, 105, 110, 103>>, <<25345>>>>,
    \* line 175: limit -> U+9650
    <<<<108, 105, 109, 105, 116>>, <<38480>>>>,
    \* line 176: offset -> U+79FB
    <<<<111, 102, 102, 115, 101, 116>>, <<31227>>>>,
    \* line 179: Promise -> U+7D04
    <<<<80, 114, 111, 109, 105, 115, 101>>, <<32004>>>>,
    \* line 180: resolve -> U+6C7A
    <<<<114, 101, 115, 111, 108, 118, 101>>, <<27770>>>>,
    \* line 181: reject -> U+5426
    <<<<114, 101, 106, 101, 99, 116>>, <<21542>>>>,
    \* line 182: then -> U+7D9A
    <<<<116, 104, 101, 110>>, <<32154>>>>,
    \* line 183: catch -> U+7372
    <<<<99, 97, 116, 99, 104>>, <<29554>>>>,
    \* line 184: finally -> U+7D42
    <<<<102, 105, 110, 97, 108, 108, 121>>, <<32066>>>>,
    \* line 185: all -> U+5168U+90E8
    <<<<97, 108, 108>>, <<20840, 37096>>>>,
    \* line 186: race -> U+7AF6U+4E89
    <<<<114, 97, 99, 101>>, <<31478, 20105>>>>,
    \* line 187: any -> U+4F55
    <<<<97, 110, 121>>, <<20309>>>>,
    \* line 188: settled -> U+89E3U+6C7A
    <<<<115, 101, 116, 116, 108, 101, 100>>, <<35299, 27770>>>>,
    \* line 191: map -> U+5199
    <<<<109, 97, 112>>, <<20889>>>>,
    \* line 192: filter -> U+6FFE
    <<<<102, 105, 108, 116, 101, 114>>, <<28670>>>>,
    \* line 193: reduce -> U+7E2E
    <<<<114, 101, 100, 117, 99, 101>>, <<32302>>>>,
    \* line 194: forEach -> U+5404
    <<<<102, 111, 114, 69, 97, 99, 104>>, <<21508>>>>,
    \* line 195: some -> U+4E00
    <<<<115, 111, 109, 101>>, <<19968>>>>,
    \* line 196: every -> U+7686
    <<<<101, 118, 101, 114, 121>>, <<30342>>>>,
    \* line 197: find -> U+898B
    <<<<102, 105, 110, 100>>, <<35211>>>>,
    \* line 198: includes -> U+542B
    <<<<105, 110, 99, 108, 117, 100, 101, 115>>, <<21547>>>>,
    \* line 199: push -> U+6DFB
    <<<<112, 117, 115, 104>>, <<28155>>>>,
    \* line 200: pop -> U+53D6
    <<<<112, 111, 112>>, <<21462>>>>,
    \* line 201: shift -> U+629C
    <<<<115, 104, 105, 102, 116>>, <<25244>>>>,
    \* line 202: unshift -> U+633F
    <<<<117, 110, 115, 104, 105, 102, 116>>, <<25407>>>>,
    \* line 203: slice -> U+8584U+5207
    <<<<115, 108, 105, 99, 101>>, <<34180, 20999>>>>,
    \* line 204: splice -> U+63A5U+7D9A
    <<<<115, 112, 108, 105, 99, 101>>, <<25509, 32154>>>>,
    \* line 205: concat -> U+9023U+7D50
    <<<<99, 111, 110, 99, 97, 116>>, <<36899, 32080>>>>,
    \* line 206: sort -> U+4E26
    <<<<115, 111, 114, 116>>, <<20006>>>>,
    \* line 207: reverse -> U+9006
    <<<<114, 101, 118, 101, 114, 115, 101>>, <<36870>>>>,
    \* line 208: flat -> U+5E73
    <<<<102, 108, 97, 116>>, <<24179>>>>,
    \* line 209: flatMap -> U+5E73U+5199
    <<<<102, 108, 97, 116, 77, 97, 112>>, <<24179, 20889>>>>,
    \* line 212: split -> U+5272
    <<<<115, 112, 108, 105, 116>>, <<21106>>>>,
    \* line 213: join -> U+7E4B
    <<<<106, 111, 105, 110>>, <<32331>>>>,
    \* line 214: replace -> U+63DB
    <<<<114, 101, 112, 108, 97, 99, 101>>, <<25563>>>>,
    \* line 215: match -> U+5408
    <<<<109, 97, 116, 99, 104>>, <<21512>>>>,
    \* line 216: slice -> U+5207
    <<<<115, 108, 105, 99, 101>>, <<20999>>>>,
    \* line 217: substring -> U+90E8
    <<<<115, 117, 98, 115, 116, 114, 105, 110, 103>>, <<37096>>>>,
    \* line 218: trim -> U+6574
    <<<<116, 114, 105, 109>>, <<25972>>>>,
    \* line 219: toLowerCase -> U+4F4E
    <<<<116, 111, 76, 111, 119, 101, 114, 67, 97, 115, 101>>, <<20302>>>>,
    \* line 220: toUpperCase -> U+9AD8
    <<<<116, 111, 85, 112, 112, 101, 114, 67, 97, 115, 101>>, <<39640>>>>,
    \* line 221: charAt -> U+4F4DU+7F6E
    <<<<99, 104, 97, 114, 65, 116>>, <<20301, 32622>>>>,
    \* line 222: indexOf -> U+7D22U+5F15U+4F4DU+7F6E
    <<<<105, 110, 100, 101, 120, 79, 102>>, <<32034, 24341, 20301, 32622>>>>,
    \* line 223: startsWith -> U+59CB
    <<<<115, 116, 97, 114, 116, 115, 87, 105, 116, 104>>, <<22987>>>>,
    \* line 224: endsWith -> U+7D42
    <<<<101, 110, 100, 115, 87, 105, 116, 104>>, <<32066>>>>,
    \* line 225: padStart -> U+524DU+8A70
    <<<<112, 97, 100, 83, 116, 97, 114, 116>>, <<21069, 35440>>>>,
    \* line 226: padEnd -> U+5F8CU+8A70
    <<<<112, 97, 100, 69, 110, 100>>, <<24460, 35440>>>>,
    \* line 229: test -> U+8A66U+9A13
    <<<<116, 101, 115, 116>>, <<35430, 39443>>>>,
    \* line 230: describe -> U+8AACU+660E
    <<<<100, 101, 115, 99, 114, 105, 98, 101>>, <<35500, 26126>>>>,
    \* line 231: it -> U+4F8BU+8A3C
    <<<<105, 116>>, <<20363, 35388>>>>,
    \* line 232: expect -> U+671FU+5F85
    <<<<101, 120, 112, 101, 99, 116>>, <<26399, 24453>>>>,
    \* line 233: assert -> U+65ADU+8A00
    <<<<97, 115, 115, 101, 114, 116>>, <<26029, 35328>>>>,
    \* line 234: mock -> U+6A21U+9020
    <<<<109, 111, 99, 107>>, <<27169, 36896>>>>,
    \* line 235: spy -> U+8ADC
    <<<<115, 112, 121>>, <<35548>>>>,
    \* line 236: before -> U+524D
    <<<<98, 101, 102, 111, 114, 101>>, <<21069>>>>,
    \* line 237: after -> U+5F8C
    <<<<97, 102, 116, 101, 114>>, <<24460>>>>,
    \* line 238: beforeEach -> U+5404U+524D
    <<<<98, 101, 102, 111, 114, 101, 69, 97, 99, 104>>, <<21508, 21069>>>>,
    \* line 239: afterEach -> U+5404U+5F8C
    <<<<97, 102, 116, 101, 114, 69, 97, 99, 104>>, <<21508, 24460>>>>,
    \* line 242: data -> U+8CC7
    <<<<100, 97, 116, 97>>, <<36039>>>>,
    \* line 243: result -> U+679C
    <<<<114, 101, 115, 117, 108, 116>>, <<26524>>>>,
    \* line 244: options -> U+9078
    <<<<111, 112, 116, 105, 111, 110, 115>>, <<36984>>>>,
    \* line 245: config -> U+8A2D
    <<<<99, 111, 110, 102, 105, 103>>, <<35373>>>>,
    \* line 246: user -> U+8005
    <<<<117, 115, 101, 114>>, <<32773>>>>,
    \* line 247: item -> U+54C1
    <<<<105, 116, 101, 109>>, <<21697>>>>,
    \* line 248: index -> U+4F4D
    <<<<105, 110, 100, 101, 120>>, <<20301>>>>,
    \* line 249: key -> U+9375
    <<<<107, 101, 121>>, <<37749>>>>,
    \* line 250: value -> U+5024
    <<<<118, 97, 108, 117, 101>>, <<20516>>>>,
    \* line 251: name -> U+540D
    <<<<110, 97, 109, 101>>, <<21517>>>>,
    \* line 252: id -> U+756A
    <<<<105, 100>>, <<30058>>>>,
    \* line 253: file -> U+4EF6
    <<<<102, 105, 108, 101>>, <<20214>>>>,
    \* line 254: url -> U+6240
    <<<<117, 114, 108>>, <<25152>>>>,
    \* line 255: path -> U+8DE1
    <<<<112, 97, 116, 104>>, <<36321>>>>,
    \* line 256: args -> U+5F15U+6570
    <<<<97, 114, 103, 115>>, <<24341, 25968>>>>,
    \* line 257: params -> U+5F15U+6570
    <<<<112, 97, 114, 97, 109, 115>>, <<24341, 25968>>>>,
    \* line 258: callback -> U+547CU+623B
    <<<<99, 97, 108, 108, 98, 97, 99, 107>>, <<21628, 25147>>>>,
    \* line 259: payload -> U+7A4DU+8F09
    <<<<112, 97, 121, 108, 111, 97, 100>>, <<31309, 36617>>>>,
    \* line 260: error -> U+904EU+8AA4
    <<<<101, 114, 114, 111, 114>>, <<36942, 35492>>>>,
    \* line 261: success -> U+6210U+529F
    <<<<115, 117, 99, 99, 101, 115, 115>>, <<25104, 21151>>>>,
    \* line 262: failure -> U+5931U+6557
    <<<<102, 97, 105, 108, 117, 114, 101>>, <<22833, 25943>>>>,
    \* line 263: timeout -> U+6642U+9650
    <<<<116, 105, 109, 101, 111, 117, 116>>, <<26178, 38480>>>>,
    \* line 264: event -> U+4E8BU+8C61
    <<<<101, 118, 101, 110, 116>>, <<20107, 35937>>>>,
    \* line 265: handler -> U+51E6U+7406U+8005
    <<<<104, 97, 110, 100, 108, 101, 114>>, <<20966, 29702, 32773>>>>,
    \* line 266: message -> U+4FE1
    <<<<109, 101, 115, 115, 97, 103, 101>>, <<20449>>>>,
    \* line 269: length -> U+9577
    <<<<108, 101, 110, 103, 116, 104>>, <<38263>>>>,
    \* line 270: typeof -> U+578B
    <<<<116, 121, 112, 101, 111, 102>>, <<22411>>>>,
    \* line 271: instanceof -> U+4F8B
    <<<<105, 110, 115, 116, 97, 110, 99, 101, 111, 102>>, <<20363>>>>,
    \* line 272: void -> U+7A7A
    <<<<118, 111, 105, 100>>, <<31354>>>>,
    \* line 273: delete -> U+9664U+53BB
    <<<<100, 101, 108, 101, 116, 101>>, <<38500, 21435>>>>,
    \* line 274: in -> U+4E2DU+9593
    <<<<105, 110>>, <<20013, 38291>>>>,
    \* line 275: of -> U+6240U+5C5E
    <<<<111, 102>>, <<25152, 23646>>>>,
    \* line 278: axios -> U+9001U+4FE1
    <<<<97, 120, 105, 111, 115>>, <<36865, 20449>>>>,
    \* line 279: cheerio -> U+89E3U+6790
    <<<<99, 104, 101, 101, 114, 105, 111>>, <<35299, 26512>>>>,
    \* line 280: parse -> U+89E3
    <<<<112, 97, 114, 115, 101>>, <<35299>>>>,
    \* line 281: scrape -> U+53CE
    <<<<115, 99, 114, 97, 112, 101>>, <<21454>>>>,
    \* line 282: extract -> U+62BD
    <<<<101, 120, 116, 114, 97, 99, 116>>, <<25277>>>>,
    \* line 283: selector -> U+6307
    <<<<115, 101, 108, 101, 99, 116, 111, 114>>, <<25351>>>>,
    \* line 284: element -> U+7D20
    <<<<101, 108, 101, 109, 101, 110, 116>>, <<32032>>>>,
    \* line 285: attribute -> U+5C5E
    <<<<97, 116, 116, 114, 105, 98, 117, 116, 101>>, <<23646>>>>,
    \* line 286: html -> U+9801
    <<<<104, 116, 109, 108>>, <<38913>>>>,
    \* line 287: text -> U+5B57
    <<<<116, 101, 120, 116>>, <<23383>>>>,
    \* line 288: DOM -> U+69CBU+9020
    <<<<68, 79, 77>>, <<27083, 36896>>>>,
    \* line 289: CSS -> U+69D8U+5F0F
    <<<<67, 83, 83>>, <<27096, 24335>>>>,
    \* line 290: xpath -> U+7D4CU+8DEF
    <<<<120, 112, 97, 116, 104>>, <<32076, 36335>>>>,
    \* line 293: model -> U+6A21U+578B
    <<<<109, 111, 100, 101, 108>>, <<27169, 22411>>>>,
    \* line 294: train -> U+8A13U+7DF4
    <<<<116, 114, 97, 105, 110>>, <<35347, 32244>>>>,
    \* line 295: predict -> U+4E88U+6E2C
    <<<<112, 114, 101, 100, 105, 99, 116>>, <<20104, 28204>>>>,
    \* line 296: classify -> U+5206U+985E
    <<<<99, 108, 97, 115, 115, 105, 102, 121>>, <<20998, 39006>>>>,
    \* line 297: cluster -> U+96C6U+56E3
    <<<<99, 108, 117, 115, 116, 101, 114>>, <<38598, 22243>>>>,
    \* line 298: feature -> U+7279U+5FB4
    <<<<102, 101, 97, 116, 117, 114, 101>>, <<29305, 24500>>>>,
    \* line 299: label -> U+6A19U+8B58
    <<<<108, 97, 98, 101, 108>>, <<27161, 35672>>>>,
    \* line 300: tensor -> U+5F35U+91CF
    <<<<116, 101, 110, 115, 111, 114>>, <<24373, 37327>>>>,
    \* line 301: vector -> U+65B9U+5411
    <<<<118, 101, 99, 116, 111, 114>>, <<26041, 21521>>>>,
    \* line 302: matrix -> U+884CU+5217
    <<<<109, 97, 116, 114, 105, 120>>, <<34892, 21015>>>>
>>

\* module.exports of dictionaries/kanji-dict.js
kanjiDict == ObjectEntries(kanjiDictLiteral)


(***************************************************************************)
(* new RegExp(source): the syntax the sources build: escaped characters,   *)
(* \b, plain characters and the capture group ([\s\S]*?).                   *)
(***************************************************************************)
anyGroupSource == <<40, 91, 92, 115, 92, 83, 93, 42, 63, 41>> (* ([\s\S]*?) *)

AppendLit(items, c) ==
    IF Len(items) > 0 /\ items[Len(items)].k = "lit"
    THEN [items EXCEPT ![Len(items)] = Lit(items[Len(items)].s \o <<c>>)]
    ELSE Append(items, Lit(<<c>>))

\* The result: ok (a SyntaxError otherwise), the items, and for each capture
\* group the index of the item it holds.
NewRegExp(source) ==
    LET Step(st, p) ==
            IF ~st.ok \/ p < st.next THEN st
            ELSE LET c == source[p]
                     bad == [ok |-> FALSE, items |-> <<>>, groups |-> <<>>, next |-> p + 1]
                     More(items, groups, n) ==
                         [ok |-> TRUE, items |-> items, groups |-> groups, next |-> p + n]
                 IN  IF c = 92
                     THEN IF p = Len(source) THEN bad
                          ELSE LET d == source[p + 1]
                               IN  IF d = 98 THEN More(Append(st.items, WordB), st.groups, 2)
                                   ELSE IF ~IsWord(d)
                                   THEN More(AppendLit(st.items, d), st.groups, 2)
                                   ELSE bad
                     ELSE IF LitAt(source, p, anyGroupSource)
                     THEN More(Append(st.items, LazyStar("any")),
                               Append(st.groups, Len(st.items) + 1), Len(anyGroupSource))
                     ELSE IF InClass("special2", c) THEN bad
                     ELSE More(AppendLit(st.items, c), st.groups, 1)
    IN  FoldRange(Step, [ok |-> TRUE, items |-> <<>>, groups |-> <<>>, next |-> 1],
                  1, Len(source))

\* GetSubstitution for a replacement string used with a pattern that has no
\* capture group, for the match of s from q to e: $$ is $, $& the match, $`
\* and $' the text before and after it; any other $ stands for itself.
Substitution(rep, s, q, e) ==
    LET Step(st, j) ==
            IF j < st.next THEN st
            ELSE IF rep[j] = 36 /\ j < Len(rep) /\ rep[j + 1] \in {36, 38, 96, 39}
            THEN [text |-> st.text \o (CASE rep[j + 1] = 36 -> <<36>>
                                         [] rep[j + 1] = 38 -> SubSeq(s, q, e - 1)
                                         [] rep[j + 1] = 96 -> SubSeq(s, 1, q - 1)
                                         [] OTHER -> SubSeq(s, e, Len(s))),
                  next |-> j + 2]
            ELSE [text |-> Append(st.text, rep[j]), next |-> j + 1]
    IN  FoldRange(Step, [text |-> <<>>, next |-> 1], 1, Len(rep)).text

\* str.replace(regex, string) with a global regex without capture groups.
ReplaceAllStr(s, re, rep) ==
    ReplaceWith(s, re, LAMBDA q, ends : Call("Substitution", <<rep, s, q, MatchEnd(ends, q)>>))

\* str.replace(string, string): the first occurrence only.
ReplaceStr(s, pat, rep) ==
    LET q == Call("IndexOfFrom", <<s, pat, 1>>)
    IN  IF q = 0 THEN s
        ELSE SubSeq(s, 1, q - 1) \o Call("Substitution", <<rep, s, q, q + Len(pat)>>)
             \o SubSeq(s, q + Len(pat), Len(s))

(***************************************************************************)
(* js-kanji-compressor (src/unnamed/part_006, lines 1-275)                 *)
(***************************************************************************)

\* /\/\/.*$/gm
reLineComment == <<Lit(<<47, 47>> (* // *)), Star("dot"), EolM>>
\* /\/\*[\s\S]*?\*\//g
reBlockComment == <<Lit(<<47, 42>> (* /* *)), LazyStar("any"), Lit(<<42, 47>> (* */ *))>>
\* /\*\//
reBlockEnd == <<Lit(<<42, 47>> (* */ *))>>
\* /\s+/g
reSpaces == <<Plus("s")>>
\* /\s{2,}/g
reSpaces2 == <<TwoPlus("s")>>
\* /^\s*[\r\n]/gm
reEmptyLine == <<Bol, Star("s"), One("newline")>>

\* the callback of preprocess for a multi-line comment
normalizeBlockComment(match) ==
    <<47, 42>> (* /* *)
    \o Call("ReplaceAll", <<Call("Trim", <<LET t == Call("ReplaceFirst", <<match, reBlockEnd, <<>>>>)
                       IN  SubSeq(t, 3, Len(t))>>),
                  reSpaces, <<Txt(<<32>> (*   *))>>>>)
    \o <<42, 47>> (* */ *)

\* processed.replace(/\/\*[\s\S]*?\*\//g, (match) => ...)
normalizeBlockComments(s) ==
    ReplaceWith(s, reBlockComment,
                LAMBDA q, ends : Call("normalizeBlockComment", <<SubSeq(s, q, MatchEnd(ends, q) - 1)>>))

\* the line callback of preprocess
preprocessLine(line) ==
    IF Call("Includes", <<line, <<47, 47>> (* // *)>>)
    THEN LET parts == Call("Split", <<line, <<47, 47>> (* // *)>>)
         IN  Call("Trim", <<Call("ReplaceAll", <<parts[1], reSpaces2, <<Txt(<<32>> (*   *))>>>>)>>)
             \o <<32, 47, 47, 32>> (*  //  *) \o Call("Trim", <<parts[2]>>)
    ELSE Call("Trim", <<Call("ReplaceAll", <<line, reSpaces2, <<Txt(<<32>> (*   *))>>>>)>>)

preprocess(code, options) ==
    LET a == IF options.removeComments
             THEN Call("ReplaceAll", <<Call("ReplaceAll", <<code, reLineComment, <<>>>>), reBlockComment, <<>>>>)
             ELSE Call("ReplaceAll", <<Call("normalizeBlockComments", <<code>>), reLineComment,
                             <<Txt(<<47, 47, 32>> (* //  *)), Grp(2, 2)>>>>)
        b == IF ~options.preserveLineBreaks THEN Call("ReplaceAll", <<a, reEmptyLine, <<>>>>) ELSE a
        lines == Call("Split", <<b, <<10>> (* \n *)>>)
    IN  Call("Trim", <<Call("Join", <<Array([i \in 1..Len(lines) |-> Call("preprocessLine", <<lines[i]>>)]), <<10>> (* \n *)>>)>>)

\* pattern.replace(/[.*+?^${}()|[\]\\]/g, '\\$&')
escapeRegExp(pattern) == Call("ReplaceAll", <<pattern, <<One("special2")>>, <<Txt(<<92>> (* \ *)), Grp(1, 1)>>>>)

\* new RegExp(`\\b${escapedPattern}\\b`, 'g')
wordRegExp_unbounded(pattern) == Call("NewRegExp", <<Call("escapeRegExp", <<pattern>>)>>)
wordRegExp(pattern) == Call("NewRegExp", <<<<92, 98>> (* \b *) \o Call("escapeRegExp", <<pattern>>) \o <<92, 98>> (* \b *)>>)

\* the entries of kanjiDict, longest key first, each with its compiled rule
sortedEntries == SortByLength(Call("kanjiDict", <<>>), 1, TRUE)

substitutionRules == Array([i \in 1..Len(Call("sortedEntries", <<>>)) |-> Call("wordRegExp", <<Call("sortedEntries", <<>>)[i][1]>>).items])

\* for (const [pattern, replacement] of entries)
\*   result = result.replace(rule, replacement)
ReplaceEntries(result, rules, entries) ==
    FoldRange(LAMBDA acc, i : Call("ReplaceAllStr", <<acc, rules[i], entries[i][2]>>),
              result, 1, Len(entries))

applyKanjiSubstitution(code) == Call("ReplaceEntries", <<code, Call("substitutionRules", <<>>), Call("sortedEntries", <<>>)>>)

\* /\s*([=+\-*/%&|^<>!?:;,{}[\]()])\s*/g
rePunct == <<Star("s"), One("punct"), Star("s")>>
\* /([{([,;])\s+/g
reAfterOpen == <<One("open"), Plus("s")>>
\* /\s+([})\]])/g
reBeforeClose == <<Plus("s"), One("close")>>
\* /\s*\.\s*/g
reDot == <<Star("s"), Lit(<<46>> (* . *)), Star("s")>>
\* /\)\s*\./g
reParenDot == <<Lit(<<41>> (* ) *)), Star("s"), Lit(<<46>> (* . *))>>
\* /([^\/])\s{2,}([^\/])/g
reFinalSpaces == <<One("notslash"), TwoPlus("s"), One("notslash")>>

\* the five replacements optimizeWhitespace applies to code
optimizeCode(code) ==
    LET a == Call("ReplaceAll", <<code, rePunct, <<Grp(2, 2)>>>>)
        b == Call("ReplaceAll", <<a, reAfterOpen, <<Grp(1, 1)>>>>)
        c == Call("ReplaceAll", <<b, reBeforeClose, <<Grp(2, 2)>>>>)
        d == Call("ReplaceAll", <<c, reDot, <<Txt(<<46>> (* . *))>>>>)
    IN  Call("ReplaceAll", <<d, reParenDot, <<Txt(<<41, 46>> (* ). *))>>>>)

\* the loop body of optimizeWhitespace
optimizeLine(line) ==
    IF Call("Includes", <<line, <<47, 47>> (* // *)>>)
    THEN LET parts == Call("Split", <<line, <<47, 47>> (* // *)>>)
         IN  Call("optimizeCode", <<parts[1]>>) \o <<32, 47, 47>> (*  // *) \o parts[2]
    ELSE IF Call("Includes", <<line, <<47, 42>> (* /* *)>>) /\ ~Call("Includes", <<line, <<42, 47>> (* */ *)>>) THEN line
    ELSE IF Call("Includes", <<line, <<42, 47>> (* */ *)>>) THEN line
    ELSE IF StartsWith(Call("TrimStart", <<line>>), <<42>> (* * *)) THEN line
    ELSE Call("optimizeCode", <<line>>)

optimizeWhitespace(code, options) ==
    LET lines == Call("Split", <<code, <<10>> (* \n *)>>)
        optimizedLines == Array([i \in 1..Len(lines) |-> Call("optimizeLine", <<lines[i]>>)])
        result == IF options.preserveLineBreaks
                  THEN Call("Join", <<optimizedLines, <<10>> (* \n *)>>)
                  ELSE Call("Join", <<optimizedLines, <<>>>>)
    IN  Call("Trim", <<Call("ReplaceAll", <<result, reFinalSpaces, <<Grp(1, 1), Txt(<<32>> (*   *)), Grp(3, 3)>>>>)>>)

compressDefaults == [removeComments |-> FALSE, preserveLineBreaks |-> TRUE]

\* jsKanji.compress
jsKanji_compress(code, options) ==
    LET o == Merge(compressDefaults, options)
    IN  Call("optimizeWhitespace", <<Call("applyKanjiSubstitution", <<Call("preprocess", <<code, o>>)>>), o>>)

\* the characters of Object.values(kanjiDict).join('')
kanjiChars == UNION {{Call("kanjiDict", <<>>)[i][2][j] : j \in 1..Len(Call("kanjiDict", <<>>)[i][2])} : i \in 1..Len(Call("kanjiDict", <<>>))}

\* jsKanji.isKanjiCompressed: new RegExp(`[${kanjiChars}]`).test(text)
isKanjiCompressed(text) == \E j \in 1..Len(text) : text[j] \in Call("kanjiChars", <<>>)

(***************************************************************************)
(* js-kanji-decompressor.js                                                *)
(***************************************************************************)

\* one step of a chain of .replace(regex, replacement) calls
Rule(re, rep) == [re |-> re, rep |-> rep]

\* s.replace(r1, ..).replace(r2, ..)...: the rules in order
ReplaceChain(s, rules) ==
    FoldRange(LAMBDA acc, i : Call("ReplaceAll", <<acc, rules[i].re, rules[i].rep>>), s, 1, Len(rules))

\* a literal replaced by a literal
Word(from, to) == Rule(<<Lit(from)>>, <<Txt(to)>>)

\* Number.prototype.toString of a natural number
RECURSIVE NumberToString(_)
NumberToString(n) ==
    IF n < 10 THEN <<48 + n>> ELSE NumberToString(n \div 10) \o <<48 + (n % 10)>>

\* the special case fixes decompress applies first (lines 34-47)
specialCaseFixes == <<
    Word(<<36865, 20449, 46, 21462>> (* U+9001U+4FE1.U+53D6 *), <<97, 120, 105, 111, 115, 46, 103, 101, 116>> (* axios.get *)),
    Word(<<46, 112, 111, 112>> (* .pop *), <<46, 103, 101, 116>> (* .get *)),
    Rule(<<Lit(<<32178, 23433, 58>> (* U+7DB2U+5B89: *)), Star("s"), Lit(<<47, 47>> (* // *))>>, <<Txt(<<104, 116, 116, 112, 115, 58, 47, 47>> (* https:// *))>>),
    Rule(<<Lit(<<32178, 58>> (* U+7DB2: *)), Star("s"), Lit(<<47, 47>> (* // *))>>, <<Txt(<<104, 116, 116, 112, 58, 47, 47>> (* http:// *))>>),
    Word(<<20214, 46>> (* U+4EF6. *), <<100, 111, 99, 117, 109, 101, 110, 116, 46>> (* document. *)),
    Word(<<25429, 40>> (* U+6355( *), <<99, 97, 116, 99, 104, 40>> (* catch( *)),
    Rule(<<Lit(<<35430>> (* U+8A66 *)), Star("s"), Lit(<<123>> (* { *))>>, <<Txt(<<116, 114, 121, 32, 123>> (* try { *))>>),
    Word(<<29554, 40>> (* U+7372( *), <<102, 101, 116, 99, 104, 40>> (* fetch( *)),
    Word(<<21508, 40>> (* U+5404( *), <<102, 111, 114, 69, 97, 99, 104, 40>> (* forEach( *)),
    Word(<<29289, 46>> (* U+7269. *), <<79, 98, 106, 101, 99, 116, 46>> (* Object. *)),
    Rule(<<Lit(<<32773>> (* U+8005 *)), WordB>>, <<Txt(<<117, 115, 101, 114>> (* user *))>>),
    Word(<<32773, 45, 112, 114, 111, 102, 105, 108, 101>> (* U+8005-profile *), <<117, 115, 101, 114, 45, 112, 114, 111, 102, 105, 108, 101>> (* user-profile *)),
    Word(<<32068, 32, 99, 111, 110, 116, 101, 110, 116, 32, 32368>> (* U+7D44 content U+7E70 *), <<83, 101, 116, 32, 99, 111, 110, 116, 101, 110, 116, 32, 102, 111, 114>> (* Set content for *)) >>

\* /\/\/.*?(?=\n|$)|\/\*[\s\S]*?\*\//g, first alternative
reInlineComment == <<Lit(<<47, 47>> (* // *)), LazyStar("dot"), AheadNlOrEnd>>

\* commentRegex.exec in a loop: the texts of the comments of s, left to
\* right.  At a position the first alternative is tried first.
extractComments(s) ==
    LET Step(st, q) ==
            IF q < st.next THEN st
            ELSE LET inline == Call("MatchAt", <<reInlineComment, s, q>>)
                     ends == IF Matched(inline) THEN inline
                             ELSE Call("MatchAt", <<reBlockComment, s, q>>)
                     e == MatchEnd(ends, q)
                 IN  IF Matched(ends)
                     THEN [comments |-> Append(st.comments, SubSeq(s, q, e - 1)), next |-> e]
                     ELSE st
    IN  FoldRange(Step, [comments |-> <<>>, next |-> 1], 1, Len(s)).comments

\* `__COMMENT_${i}__`
commentMarker(i) == <<95, 95, 67, 79, 77, 77, 69, 78, 84, 95>> (* __COMMENT_ *) \o NumberToString(i) \o <<95, 95>> (* __ *)

\* comments.forEach((comment, i) => decompressed.replace(comment.text, marker))
hideComments(s, comments) ==
    FoldRange(LAMBDA acc, i : Call("ReplaceStr", <<acc, comments[i], commentMarker(i - 1)>>),
              s, 1, Len(comments))

\* Object.fromEntries(Object.entries(kanjiDict).map(([key, value]) => [value, key]))
reverseDict ==
    ObjectEntries(Array([i \in 1..Len(Call("kanjiDict", <<>>)) |-> <<Call("kanjiDict", <<>>)[i][2], Call("kanjiDict", <<>>)[i][1]>>]))

\* Object.entries(reverseDict).sort((a, b) => b[0].length - a[0].length)
reverseEntries == SortByLength(Call("reverseDict", <<>>), 1, TRUE)

\* new RegExp(escapedKanji, 'g') for each entry
reverseRules == Array([i \in 1..Len(Call("reverseEntries", <<>>)) |-> Call("NewRegExp", <<Call("escapeRegExp", <<Call("reverseEntries", <<>>)[i][1]>>)>>).items])

applyReverseDictionary(code) == Call("ReplaceEntries", <<code, Call("reverseRules", <<>>), Call("reverseEntries", <<>>)>>)

httpScheme == Alt(<<<<104, 116, 116, 112, 115>> (* https *), <<104, 116, 116, 112>> (* http *)>>)

\* applyCommonFixes (lines 156-193)
commonFixes == <<
    Rule(<<httpScheme, Lit(<<58, 47, 47>> (* :// *)), Plus("s")>>, <<Grp(1, 1), Txt(<<58, 47, 47>> (* :// *))>>),
    Rule(<<Lit(<<97, 112, 105, 46>> (* api. *)), Star("s"), Lit(<<101, 120, 97, 109, 112, 108, 101>> (* example *))>>, <<Txt(<<97, 112, 105, 46, 101, 120, 97, 109, 112, 108, 101>> (* api.example *))>>),
    Rule(<<Lit(<<47>> (* / *)), Plus("s")>>, <<Txt(<<47>> (* / *))>>),
    Word(<<36, 61>> (* $= *), <<36, 32, 61>> (* $ = *)),
    Word(<<61, 36>> (* =$ *), <<61, 32, 36>> (* = $ *)),
    Word(<<40, 36>> (* ($ *), <<40, 36, 32>> (* ($  *)),
    Word(<<44, 36>> (* ,$ *), <<44, 32, 36>> (* , $ *)),
    Rule(<<Lit(<<61>> (* = *)), Star("s"), Lit(<<62>> (* > *))>>, <<Txt(<<61, 62>> (* => *))>>),
    Rule(<<Lit(<<67, 111, 110, 116, 101, 110, 116>> (* Content *)), Star("s"), Lit(<<45>> (* - *)), Star("s"), Lit(<<84, 121, 112, 101>> (* Type *))>>,
         <<Txt(<<67, 111, 110, 116, 101, 110, 116, 45, 84, 121, 112, 101>> (* Content-Type *))>>),
    Rule(<<Lit(<<97, 112, 112, 108, 105, 99, 97, 116, 105, 111, 110>> (* application *)), Star("s"), Lit(<<47>> (* / *)), Star("s"), Lit(<<106, 115, 111, 110>> (* json *))>>,
         <<Txt(<<97, 112, 112, 108, 105, 99, 97, 116, 105, 111, 110, 47, 106, 115, 111, 110>> (* application/json *))>>),
    Word(<<25429, 40>> (* U+6355( *), <<99, 97, 116, 99, 104, 40>> (* catch( *)),
    Rule(<<Lit(<<35430>> (* U+8A66 *)), Star("s"), Lit(<<123>> (* { *))>>, <<Txt(<<116, 114, 121, 32, 123>> (* try { *))>>),
    Word(<<29554, 40>> (* U+7372( *), <<99, 97, 116, 99, 104, 40>> (* catch( *)),
    Rule(<<Lit(<<102, 101, 116, 99, 104>> (* fetch *)), Star("s"), Lit(<<40, 101, 114, 114, 111, 114, 41>> (* (error) *))>>, <<Txt(<<99, 97, 116, 99, 104, 32, 40, 101, 114, 114, 111, 114, 41>> (* catch (error) *))>>),
    Word(<<21508, 40>> (* U+5404( *), <<102, 111, 114, 69, 97, 99, 104, 40>> (* forEach( *)),
    Word(<<29289, 46>> (* U+7269. *), <<79, 98, 106, 101, 99, 116, 46>> (* Object. *)),
    Word(<<21015, 46>> (* U+5217. *), <<65, 114, 114, 97, 121, 46>> (* Array. *)),
    Rule(<<WordB, Lit(<<65, 114, 114, 97, 121, 46, 118, 97, 108, 117, 101, 115>> (* Array.values *)), WordB>>, <<Txt(<<79, 98, 106, 101, 99, 116, 46, 118, 97, 108, 117, 101, 115>> (* Object.values *))>>),
    Word(<<32773, 32, 112, 114, 111, 102, 105, 108, 101>> (* U+8005 profile *), <<117, 115, 101, 114, 32, 112, 114, 111, 102, 105, 108, 101>> (* user profile *)),
    Word(<<32773, 45, 112, 114, 111, 102, 105, 108, 101>> (* U+8005-profile *), <<117, 115, 101, 114, 45, 112, 114, 111, 102, 105, 108, 101>> (* user-profile *)),
    Rule(<<WordB, Lit(<<32068, 32, 99, 111, 110, 116, 101, 110, 116, 32, 32368>> (* U+7D44 content U+7E70 *)), WordB>>, <<Txt(<<83, 101, 116, 32, 99, 111, 110, 116, 101, 110, 116, 32, 102, 111, 114>> (* Set content for *))>>),
    Rule(<<WordB, Lit(<<32773>> (* U+8005 *)), WordB>>, <<Txt(<<117, 115, 101, 114>> (* user *))>>) >>

applyCommonFixes(code) == Call("ReplaceChain", <<code, Call("commonFixes", <<>>)>>)

\* the pattern-based replacements of a comment's text (lines 96-123, and
\* processLine lines 288-315)
commentFixes == <<
    Rule(<<Lit(<<32773>> (* U+8005 *)), Star("s"), Lit(<<112, 114, 111, 102, 105, 108, 101>> (* profile *))>>, <<Txt(<<117, 115, 101, 114, 32, 112, 114, 111, 102, 105, 108, 101>> (* user profile *))>>),
    Word(<<32773, 45, 112, 114, 111, 102, 105, 108, 101>> (* U+8005-profile *), <<117, 115, 101, 114, 45, 112, 114, 111, 102, 105, 108, 101>> (* user-profile *)),
    Rule(<<Lit(<<32068>> (* U+7D44 *)), Star("s"), Lit(<<99, 111, 110, 116, 101, 110, 116>> (* content *)), Star("s"), Lit(<<32368>> (* U+7E70 *))>>,
         <<Txt(<<83, 101, 116, 32, 99, 111, 110, 116, 101, 110, 116, 32, 102, 111, 114>> (* Set content for *))>>),
    Rule(<<WordB, Lit(<<32773>> (* U+8005 *)), WordB>>, <<Txt(<<117, 115, 101, 114>> (* user *))>>),
    Word(<<21517>> (* U+540D *), <<110, 97, 109, 101>> (* name *)),
    Word(<<29289>> (* U+7269 *), <<111, 98, 106, 101, 99, 116>> (* object *)),
    Word(<<21508>> (* U+5404 *), <<102, 111, 114, 69, 97, 99, 104>> (* forEach *)),
    Word(<<20214>> (* U+4EF6 *), <<100, 111, 99, 117, 109, 101, 110, 116>> (* document *)),
    Word(<<29554>> (* U+7372 *), <<102, 101, 116, 99, 104>> (* fetch *)),
    Word(<<36039>> (* U+8CC7 *), <<100, 97, 116, 97>> (* data *)),
    Word(<<32032>> (* U+7D20 *), <<101, 108, 101, 109, 101, 110, 116>> (* element *)),
    Word(<<38957>> (* U+982D *), <<104, 101, 97, 100, 101, 114, 115>> (* headers *)),
    Word(<<31572>> (* U+7B54 *), <<114, 101, 115, 112, 111, 110, 115, 101>> (* response *)),
    Word(<<23450>> (* U+5B9A *), <<99, 111, 110, 115, 116>> (* const *)),
    Word(<<26781>> (* U+689D *), <<105, 102>> (* if *)),
    Word(<<25237>> (* U+6295 *), <<116, 104, 114, 111, 119>> (* throw *)),
    Word(<<26032>> (* U+65B0 *), <<110, 101, 119>> (* new *)),
    Word(<<24907>> (* U+614B *), <<115, 116, 97, 116, 117, 115>> (* status *)),
    Word(<<36820>> (* U+8FD4 *), <<114, 101, 116, 117, 114, 110>> (* return *)),
    Word(<<38306>> (* U+95A2 *), <<102, 117, 110, 99, 116, 105, 111, 110>> (* function *)),
    Word(<<38750>> (* U+975E *), <<97, 115, 121, 110, 99>> (* async *)),
    Word(<<26085>> (* U+65E5 *), <<68, 97, 116, 101>> (* Date *)),
    Word(<<35430>> (* U+8A66 *), <<116, 114, 121>> (* try *)),
    Word(<<25429>> (* U+6355 *), <<99, 97, 116, 99, 104>> (* catch *)),
    Word(<<36942, 35492>> (* U+904EU+8AA4 *), <<101, 114, 114, 111, 114>> (* error *)),
    Word(<<31034>> (* U+793A *), <<99, 111, 110, 115, 111, 108, 101>> (* console *)),
    Word(<<20449>> (* U+4FE1 *), <<109, 101, 115, 115, 97, 103, 101>> (* message *)),
    Word(<<32178, 23433>> (* U+7DB2U+5B89 *), <<104, 116, 116, 112, 115>> (* https *)) >>

\* /[\u4E00-\u9FFF\u3040-\u309F\u30A0-\u30FF]+/g
reKanjiRun == <<Plus("cjkkana")>>

\* String.prototype.match with a global regular expression: the matched texts
MatchAll(re, s) ==
    LET found == Call("ScanAll", <<re, s>>)
    IN  Array([i \in 1..Len(found) |-> SubSeq(s, found[i][1], MatchEnd(found[i][2], found[i][1]) - 1)])

\* the first key of kanjiDict whose value is kanjiChar, or <<>> (lines 126-135)
firstKeyOf(kanjiChar) ==
    LET hits == {i \in 1..Len(Call("kanjiDict", <<>>)) : Call("kanjiDict", <<>>)[i][2] = kanjiChar}
    IN  IF hits = {} THEN <<>>
        ELSE Call("kanjiDict", <<>>)[CHOOSE i \in hits : \A j \in hits : i <= j][1]

\* for (const kanjiChar of kanjiMatches): the dictionary-based translation
translateRuns(text, kanjiMatches) ==
    LET Step(t, i) ==
            LET kanjiChar == kanjiMatches[i]
                key == firstKeyOf(kanjiChar)
            IN  IF Call("Includes", <<t, kanjiChar>>) /\ key # <<>>
                THEN Call("ReplaceAllStr", <<t, <<Lit(kanjiChar)>>, key>>)
                ELSE t
    IN  FoldRange(Step, text, 1, Len(kanjiMatches))

\* the translation of a preserved comment (lines 84-137)
translateComment(text) ==
    LET kanjiMatches == Call("MatchAll", <<reKanjiRun, text>>)
    IN  IF Len(kanjiMatches) > 0
        THEN Call("translateRuns", <<Call("ReplaceChain", <<text, Call("commentFixes", <<>>)>>), kanjiMatches>>)
        ELSE text

\* decompressed.replace(`__COMMENT_${i}__`, translatedComment) for each comment
restoreComments(s, comments) ==
    FoldRange(LAMBDA acc, i : Call("ReplaceStr", <<acc, commentMarker(i - 1), Call("translateComment", <<comments[i]>>)>>),
              s, 1, Len(comments))

\* the replacements processLine applies to the whole line (lines 254-275)
lineFixes == <<
    Rule(<<httpScheme, Lit(<<58, 32, 47, 47>> (* : // *))>>, <<Grp(1, 1), Txt(<<58, 47, 47>> (* :// *))>>),
    Rule(<<Lit(<<47>> (* / *)), Plus("s")>>, <<Txt(<<47>> (* / *))>>),
    Rule(<<Lit(<<67, 111, 110, 116, 101, 110, 116>> (* Content *)), Star("s"), Lit(<<45>> (* - *)), Star("s"), Lit(<<84, 121, 112, 101>> (* Type *))>>,
         <<Txt(<<67, 111, 110, 116, 101, 110, 116, 45, 84, 121, 112, 101>> (* Content-Type *))>>),
    Rule(<<Lit(<<97, 112, 112, 108, 105, 99, 97, 116, 105, 111, 110>> (* application *)), Star("s"), Lit(<<47>> (* / *)), Star("s"), Lit(<<106, 115, 111, 110>> (* json *))>>,
         <<Txt(<<97, 112, 112, 108, 105, 99, 97, 116, 105, 111, 110, 47, 106, 115, 111, 110>> (* application/json *))>>),
    Rule(<<Lit(<<117, 115, 101, 114>> (* user *)), Star("s"), Lit(<<45>> (* - *)), Star("s"), Lit(<<112, 114, 111, 102, 105, 108, 101>> (* profile *))>>,
         <<Txt(<<117, 115, 101, 114, 45, 112, 114, 111, 102, 105, 108, 101>> (* user-profile *))>>),
    Rule(<<One("w"), One("operator")>>, <<Grp(1, 1), Txt(<<32>> (*   *)), Grp(2, 2)>>),
    Rule(<<One("operator"), One("w")>>, <<Grp(1, 1), Txt(<<32>> (*   *)), Grp(2, 2)>>),
    Rule(<<Star("s"), Lit(<<61>> (* = *)), Star("s")>>, <<Txt(<<32, 61, 32>> (*  =  *))>>),
    Rule(<<Lit(<<44>> (* , *)), One("nots")>>, <<Txt(<<44, 32>> (* ,  *)), Grp(2, 2)>>),
    Rule(<<WordB,
           Alt(<<<<105, 102>> (* if *), <<102, 111, 114>> (* for *), <<119, 104, 105, 108, 101>> (* while *), <<115, 119, 105, 116, 99, 104>> (* switch *), <<99, 97, 116, 99, 104>> (* catch *), <<102, 117, 110, 99, 116, 105, 111, 110>> (* function *), <<99, 108, 97, 115, 115>> (* class *)>>),
           Lit(<<40>> (* ( *))>>,
         <<Grp(2, 2), Txt(<<32, 40>> (*  ( *))>>),
    Rule(<<Lit(<<41>> (* ) *)), Star("s"), Lit(<<123>> (* { *))>>, <<Txt(<<41, 32, 123>> (* ) { *))>>),
    Rule(<<TwoPlus("s")>>, <<Txt(<<32>> (*   *))>>) >>

\* /=\s*>/g
reArrow == <<Lit(<<61>> (* = *)), Star("s"), Lit(<<62>> (* > *))>>
\* /(\w+):/g
reProperty == <<Plus("w"), Lit(<<58>> (* : *))>>
\* /{\s*([^{}]*?)\s*}/g
reBraces == <<Lit(<<123>> (* { *)), Star("s"), LazyStar("notbrace"), Star("s"), Lit(<<125>> (* } *))>>

\* the replacements processLine applies to a line without comment (lines 341-363)
termFixes == <<
    Rule(<<WordB, Lit(<<32773>> (* U+8005 *)), WordB>>, <<Txt(<<117, 115, 101, 114>> (* user *))>>),
    Word(<<21517>> (* U+540D *), <<110, 97, 109, 101>> (* name *)),
    Word(<<29289>> (* U+7269 *), <<111, 98, 106, 101, 99, 116>> (* object *)),
    Word(<<20214>> (* U+4EF6 *), <<100, 111, 99, 117, 109, 101, 110, 116>> (* document *)),
    Rule(<<Lit(<<32068>> (* U+7D44 *)), Star("s"), Lit(<<99, 111, 110, 116, 101, 110, 116>> (* content *)), Star("s"), Lit(<<32368>> (* U+7E70 *))>>,
         <<Txt(<<83, 101, 116, 32, 99, 111, 110, 116, 101, 110, 116, 32, 102, 111, 114>> (* Set content for *))>>),
    Word(<<32032>> (* U+7D20 *), <<101, 108, 101, 109, 101, 110, 116>> (* element *)),
    Word(<<38957>> (* U+982D *), <<104, 101, 97, 100, 101, 114, 115>> (* headers *)),
    Word(<<31572>> (* U+7B54 *), <<114, 101, 115, 112, 111, 110, 115, 101>> (* response *)),
    Word(<<23450>> (* U+5B9A *), <<99, 111, 110, 115, 116>> (* const *)),
    Word(<<26781>> (* U+689D *), <<105, 102>> (* if *)),
    Word(<<25237>> (* U+6295 *), <<116, 104, 114, 111, 119>> (* throw *)),
    Word(<<26032>> (* U+65B0 *), <<110, 101, 119>> (* new *)),
    Word(<<24907>> (* U+614B *), <<115, 116, 97, 116, 117, 115>> (* status *)),
    Word(<<36820>> (* U+8FD4 *), <<114, 101, 116, 117, 114, 110>> (* return *)),
    Word(<<38306>> (* U+95A2 *), <<102, 117, 110, 99, 116, 105, 111, 110>> (* function *)),
    Word(<<38750>> (* U+975E *), <<97, 115, 121, 110, 99>> (* async *)),
    Word(<<26085>> (* U+65E5 *), <<68, 97, 116, 101>> (* Date *)),
    Word(<<35430>> (* U+8A66 *), <<116, 114, 121>> (* try *)),
    Word(<<25429>> (* U+6355 *), <<99, 97, 116, 99, 104>> (* catch *)),
    Word(<<36942, 35492>> (* U+904EU+8AA4 *), <<101, 114, 114, 111, 114>> (* error *)),
    Word(<<31034>> (* U+793A *), <<99, 111, 110, 115, 111, 108, 101>> (* console *)),
    Word(<<20449>> (* U+4FE1 *), <<109, 101, 115, 115, 97, 103, 101>> (* message *)),
    Word(<<32178, 23433>> (* U+7DB2U+5B89 *), <<104, 116, 116, 112, 115>> (* https *)) >>

\* processLine (lines 252-358)
processLine(line0) ==
    LET line == Call("ReplaceChain", <<line0, Call("lineFixes", <<>>)>>)
    IN  IF Call("Includes", <<line, <<47, 47>> (* // *)>>)
        THEN LET parts == Call("Split", <<line, <<47, 47>> (* // *)>>)
                 codePart == parts[1]
                 commentPart == Call("ReplaceChain", <<Call("Trim", <<parts[2]>>), Call("commentFixes", <<>>)>>)
             IN  IF Call("Trim", <<codePart>>) # <<>>
                 THEN Call("processLine", <<codePart>>) \o <<32, 47, 47, 32>> (*  //  *) \o commentPart
                 ELSE <<47, 47, 32>> (* //  *) \o commentPart
        ELSE LET a == Call("ReplaceAll", <<line, reArrow, <<Txt(<<61, 62>> (* => *))>>>>)
                 b == IF Call("Includes", <<a, <<123>> (* { *)>>) /\ Call("Includes", <<a, <<58>> (* : *)>>)
                      THEN Call("ReplaceAll", <<a, reProperty, <<Grp(1, 1), Txt(<<58, 32>> (* :  *))>>>>)
                      ELSE a
                 c == IF Call("Includes", <<b, <<123>> (* { *)>>) /\ Call("Includes", <<b, <<125>> (* } *)>>) /\ Call("Includes", <<b, <<61>> (* = *)>>)
                      THEN Call("ReplaceAll", <<b, reBraces, <<Txt(<<123, 32>> (* {  *)), Grp(3, 3), Txt(<<32, 125>> (*  } *))>>>>)
                      ELSE b
             IN  Call("ReplaceChain", <<c, Call("termFixes", <<>>)>>)

\* ' '.repeat(n)
Spaces(n) == Array([i \in 1..n |-> 32])

\* /^(function|class|if|for|while|switch)/
reStatementStart ==
    <<Alt(<<<<102, 117, 110, 99, 116, 105, 111, 110>> (* function *), <<99, 108, 97, 115, 115>> (* class *), <<105, 102>> (* if *), <<102, 111, 114>> (* for *), <<119, 104, 105, 108, 101>> (* while *), <<115, 119, 105, 116, 99, 104>> (* switch *)>>)>>

\* one turn of the loop of formatCode over the lines (lines 210-239)
formatLine(st, lines, i) ==
    LET trimmed == Call("Trim", <<lines[i]>>)
        line == Call("processLine", <<trimmed>>)
        closing == Len(line) > 0 /\ InClass("closebb", line[1])
        level == IF closing
                 THEN (IF st.indentLevel - 1 > 0 THEN st.indentLevel - 1 ELSE 0)
                 ELSE st.indentLevel
        opening == EndsWith(line, <<123>> (* { *)) \/ EndsWith(line, <<91>> (* [ *))
        nextLine == IF i < Len(lines) THEN Call("Trim", <<lines[i + 1]>>) ELSE <<>>
        blank == /\ EndsWith(line, <<59>> (* ; *))
                 /\ i < Len(lines)
                 /\ \/ StartsWith(nextLine, <<47, 47>> (* // *))
                    \/ Matched(Call("MatchAt", <<reStatementStart, nextLine, 1>>))
    IN  IF trimmed = <<>> THEN st
        ELSE [formattedLines |-> st.formattedLines \o <<Spaces(2 * level) \o line>>
                                 \o (IF blank THEN << <<>> >> ELSE <<>>),
              indentLevel |-> IF opening THEN level + 1 ELSE level]

\* formatCode (lines 201-244)
formatCode(code) ==
    LET lines == Call("Split", <<code, <<10>> (* \n *)>>)
    IN  Call("Join", <<FoldRange(LAMBDA st, i : Call("formatLine", <<st, lines, i>>),
                       [formattedLines |-> <<>>, indentLevel |-> 0], 1, Len(lines))
                 .formattedLines,
             <<10>> (* \n *)>>)

\* a call's outcome: the text returned, or the message of the error thrown
Return(text) == [ok |-> TRUE, val |-> text, err |-> <<>>]
Throw(message) == [ok |-> FALSE, val |-> <<>>, err |-> message]

decompressDefaults == [formatOutput |-> TRUE, preserveComments |-> TRUE]

\* decompress (lines 16-148)
decompressor_decompress(kanjiCode, options) ==
    IF kanjiCode = <<>> THEN Throw(<<73, 110, 112, 117, 116, 32, 99, 111, 100, 101, 32, 109, 117, 115, 116, 32, 98, 101, 32, 97, 32, 110, 111, 110, 45, 101, 109, 112, 116, 121, 32, 115, 116, 114, 105, 110, 103>> (* Input code must be a non-empty string *))
    ELSE LET o == Merge(decompressDefaults, options)
             fixed == Call("ReplaceChain", <<kanjiCode, Call("specialCaseFixes", <<>>)>>)
             comments == IF o.preserveComments THEN Call("extractComments", <<fixed>>) ELSE <<>>
             hidden == Call("hideComments", <<fixed, comments>>)
             translated == Call("applyCommonFixes", <<Call("applyReverseDictionary", <<hidden>>)>>)
             restored == IF o.preserveComments /\ Len(comments) > 0
                         THEN Call("restoreComments", <<translated, comments>>)
                         ELSE translated
         IN  Return(IF o.formatOutput THEN Call("formatCode", <<restored>>) ELSE restored)

(***************************************************************************)
(* semantic-patterns.js, semantic-kanji.js                                 *)
(***************************************************************************)

\* a JavaScript argument: a string, an object, or undefined
Str(s) == [type |-> "string", str |-> s, obj |-> <<>>]
Obj(o) == [type |-> "object", str |-> <<>>, obj |-> o]
Undefined == [type |-> "undefined", str |-> <<>>, obj |-> <<>>]

\* String(value)
String(v) ==
    IF v.type = "string" THEN v.str
    ELSE IF v.type = "undefined" THEN <<117, 110, 100, 101, 102, 105, 110, 101, 100>> (* undefined *)
    ELSE <<91, 111, 98, 106, 101, 99, 116, 32, 79, 98, 106, 101, 99, 116, 93>> (* [object Object] *)

\* String.prototype.toLowerCase (the letters A-Z; the method names are ASCII)
ToLowerCase(s) == Array([i \in 1..Len(s) |-> IF s[i] >= 65 /\ s[i] <= 90 THEN s[i] + 32 ELSE s[i]])

semanticPatternsLiteral ==
<<
    \* lines 18-19: target U+C6CE.U+C6CF($4, $5, $6, $7, $8, $9)
    <<<<99, 111, 110, 115, 116, 32, 36, 49, 32, 61, 32, 114, 101, 113, 117, 105, 114, 101, 40, 39,
        97, 120, 105, 111, 115, 39, 41, 59, 10, 99, 111, 110, 115, 116, 32, 36, 50, 32, 61, 32,
        114, 101, 113, 117, 105, 114, 101, 40, 39, 99, 104, 101, 101, 114, 105, 111, 39, 41,
        59, 10, 99, 111, 110, 115, 116, 32, 36, 51, 32, 61, 32, 114, 101, 113, 117, 105, 114,
        101, 40, 39, 102, 115, 39, 41, 59, 10, 97, 115, 121, 110, 99, 32, 102, 117, 110, 99,
        116, 105, 111, 110, 32, 36, 52, 40, 36, 53, 44, 32, 36, 54, 41, 32, 123, 10, 32, 32,
        116, 114, 121, 32, 123, 10, 32, 32, 32, 32, 99, 111, 110, 115, 116, 32, 123, 32, 100,
        97, 116, 97, 32, 125, 32, 61, 32, 97, 119, 97, 105, 116, 32, 36, 49, 46, 103, 101, 116,
        40, 36, 53, 41, 59, 10, 32, 32, 32, 32, 99, 111, 110, 115, 116, 32, 36, 32, 61, 32, 36,
        50, 46, 108, 111, 97, 100, 40, 100, 97, 116, 97, 41, 59, 10, 32, 32, 32, 32, 99, 111,
        110, 115, 116, 32, 36, 55, 32, 61, 32, 36, 40, 36, 56, 41, 46, 116, 101, 120, 116, 40,
        41, 59, 10, 32, 32, 32, 32, 99, 111, 110, 115, 116, 32, 36, 57, 32, 61, 32, 36, 55, 46,
        114, 101, 112, 108, 97, 99, 101, 40, 47, 92, 115, 43, 47, 103, 44, 32, 39, 32, 39, 41,
        46, 116, 114, 105, 109, 40, 41, 59, 10, 32, 32, 32, 32, 36, 51, 46, 119, 114, 105, 116,
        101, 70, 105, 108, 101, 83, 121, 110, 99, 40, 36, 54, 44, 32, 36, 57, 41, 59, 10, 32,
        32, 32, 32, 99, 111, 110, 115, 111, 108, 101, 46, 108, 111, 103, 40, 96, 67, 111, 110,
        116, 101, 110, 116, 32, 115, 97, 118, 101, 100, 32, 116, 111, 32, 36, 123, 36, 54, 125,
        96, 41, 59, 10, 32, 32, 125, 32, 99, 97, 116, 99, 104, 32, 40, 36, 49, 48, 41, 32, 123,
        10, 32, 32, 32, 32, 99, 111, 110, 115, 111, 108, 101, 46, 101, 114, 114, 111, 114, 40,
        39, 69, 114, 114, 111, 114, 58, 39, 44, 32, 36, 49, 48, 46, 109, 101, 115, 115, 97,
        103, 101, 41, 59, 10, 32, 32, 125, 10, 125>>,
      <<50894, 46, 50895, 40, 36, 52, 44, 32, 36, 53, 44, 32, 36, 54, 44, 32, 36, 55, 44, 32, 36, 56, 44, 32, 36, 57, 41>>>>,
    \* lines 22-23: target U+C6CE.U+AA82($1, $2, $3, $4)
    <<<<97, 115, 121, 110, 99, 32, 102, 117, 110, 99, 116, 105, 111, 110, 32, 36, 49, 40, 36, 50, 41,
        32, 123, 10, 32, 32, 116, 114, 121, 32, 123, 10, 32, 32, 32, 32, 99, 111, 110, 115,
        116, 32, 123, 32, 100, 97, 116, 97, 32, 125, 32, 61, 32, 97, 119, 97, 105, 116, 32, 97,
        120, 105, 111, 115, 46, 103, 101, 116, 40, 36, 50, 41, 59, 10, 32, 32, 32, 32, 99, 111,
        110, 115, 116, 32, 36, 32, 61, 32, 99, 104, 101, 101, 114, 105, 111, 46, 108, 111, 97,
        100, 40, 100, 97, 116, 97, 41, 59, 10, 32, 32, 32, 32, 99, 111, 110, 115, 116, 32, 36,
        51, 32, 61, 32, 36, 40, 36, 52, 41, 46, 116, 101, 120, 116, 40, 41, 59, 10, 32, 32, 32,
        32, 114, 101, 116, 117, 114, 110, 32, 36, 51, 59, 10, 32, 32, 125, 32, 99, 97, 116, 99,
        104, 32, 40, 36, 53, 41, 32, 123, 10, 32, 32, 32, 32, 99, 111, 110, 115, 111, 108, 101,
        46, 101, 114, 114, 111, 114, 40, 39, 69, 114, 114, 111, 114, 58, 39, 44, 32, 36, 53,
        46, 109, 101, 115, 115, 97, 103, 101, 41, 59, 10, 32, 32, 32, 32, 116, 104, 114, 111,
        119, 32, 36, 53, 59, 10, 32, 32, 125, 10, 125>>,
      <<50894, 46, 43650, 40, 36, 49, 44, 32, 36, 50, 44, 32, 36, 51, 44, 32, 36, 52, 41>>>>,
    \* lines 26-27: target U+C6C3($1, $2, $3)
    <<<<97, 115, 121, 110, 99, 32, 102, 117, 110, 99, 116, 105, 111, 110, 32, 36, 49, 40, 36, 50, 41,
        32, 123, 10, 32, 32, 116, 114, 121, 32, 123, 10, 32, 32, 32, 32, 99, 111, 110, 115,
        116, 32, 114, 101, 115, 112, 111, 110, 115, 101, 32, 61, 32, 97, 119, 97, 105, 116, 32,
        97, 120, 105, 111, 115, 46, 103, 101, 116, 40, 36, 50, 41, 59, 10, 32, 32, 32, 32, 114,
        101, 116, 117, 114, 110, 32, 114, 101, 115, 112, 111, 110, 115, 101, 46, 100, 97, 116,
        97, 59, 10, 32, 32, 125, 32, 99, 97, 116, 99, 104, 32, 40, 36, 51, 41, 32, 123, 10, 32,
        32, 32, 32, 99, 111, 110, 115, 111, 108, 101, 46, 101, 114, 114, 111, 114, 40, 39, 69,
        114, 114, 111, 114, 58, 39, 44, 32, 36, 51, 46, 109, 101, 115, 115, 97, 103, 101, 41,
        59, 10, 32, 32, 32, 32, 116, 104, 114, 111, 119, 32, 36, 51, 59, 10, 32, 32, 125, 10,
        125>>,
      <<50883, 40, 36, 49, 44, 32, 36, 50, 44, 32, 36, 51, 41>>>>,
    \* lines 30-31: target U+C6CB($1, $2, $3, $4)
    <<<<97, 115, 121, 110, 99, 32, 102, 117, 110, 99, 116, 105, 111, 110, 32, 36, 49, 40, 36, 50, 44,
        32, 36, 51, 41, 32, 123, 10, 32, 32, 116, 114, 121, 32, 123, 10, 32, 32, 32, 32, 99,
        111, 110, 115, 116, 32, 114, 101, 115, 112, 111, 110, 115, 101, 32, 61, 32, 97, 119,
        97, 105, 116, 32, 97, 120, 105, 111, 115, 46, 112, 111, 115, 116, 40, 36, 50, 44, 32,
        36, 51, 41, 59, 10, 32, 32, 32, 32, 114, 101, 116, 117, 114, 110, 32, 114, 101, 115,
        112, 111, 110, 115, 101, 46, 100, 97, 116, 97, 59, 10, 32, 32, 125, 32, 99, 97, 116,
        99, 104, 32, 40, 36, 52, 41, 32, 123, 10, 32, 32, 32, 32, 99, 111, 110, 115, 111, 108,
        101, 46, 101, 114, 114, 111, 114, 40, 39, 69, 114, 114, 111, 114, 58, 39, 44, 32, 36,
        52, 46, 109, 101, 115, 115, 97, 103, 101, 41, 59, 10, 32, 32, 32, 32, 116, 104, 114,
        111, 119, 32, 36, 52, 59, 10, 32, 32, 125, 10, 125>>,
      <<50891, 40, 36, 49, 44, 32, 36, 50, 44, 32, 36, 51, 44, 32, 36, 52, 41>>>>,
    \* lines 34-35: target U+C6CE.U+9875($1, $2, $3, '$4', '$5', '$6', '$7', '$8', '$9')
    <<<<97, 115, 121, 110, 99, 32, 102, 117, 110, 99, 116, 105, 111, 110, 32, 36, 49, 40, 36, 50, 44,
        32, 36, 51, 41, 32, 123, 10, 32, 32, 99, 111, 110, 115, 116, 32, 114, 101, 115, 117,
        108, 116, 115, 32, 61, 32, 91, 93, 59, 10, 32, 32, 108, 101, 116, 32, 112, 97, 103,
        101, 32, 61, 32, 49, 59, 10, 32, 32, 108, 101, 116, 32, 104, 97, 115, 77, 111, 114,
        101, 80, 97, 103, 101, 115, 32, 61, 32, 116, 114, 117, 101, 59, 10, 32, 32, 10, 32, 32,
        119, 104, 105, 108, 101, 32, 40, 104, 97, 115, 77, 111, 114, 101, 80, 97, 103, 101,
        115, 32, 38, 38, 32, 112, 97, 103, 101, 32, 60, 61, 32, 36, 51, 41, 32, 123, 10, 32,
        32, 32, 32, 116, 114, 121, 32, 123, 10, 32, 32, 32, 32, 32, 32, 99, 111, 110, 115, 116,
        32, 117, 114, 108, 32, 61, 32, 96, 36, 123, 36, 50, 125, 63, 112, 97, 103, 101, 61, 36,
        123, 112, 97, 103, 101, 125, 96, 59, 10, 32, 32, 32, 32, 32, 32, 99, 111, 110, 115,
        116, 32, 123, 32, 100, 97, 116, 97, 32, 125, 32, 61, 32, 97, 119, 97, 105, 116, 32, 97,
        120, 105, 111, 115, 46, 103, 101, 116, 40, 117, 114, 108, 41, 59, 10, 32, 32, 32, 32,
        32, 32, 99, 111, 110, 115, 116, 32, 36, 32, 61, 32, 99, 104, 101, 101, 114, 105, 111,
        46, 108, 111, 97, 100, 40, 100, 97, 116, 97, 41, 59, 10, 32, 32, 32, 32, 32, 32, 10,
        32, 32, 32, 32, 32, 32, 99, 111, 110, 115, 116, 32, 112, 97, 103, 101, 73, 116, 101,
        109, 115, 32, 61, 32, 36, 40, 39, 36, 52, 39, 41, 46, 109, 97, 112, 40, 40, 95, 105,
        44, 32, 101, 108, 41, 32, 61, 62, 32, 123, 10, 32, 32, 32, 32, 32, 32, 32, 32, 99, 111,
        110, 115, 116, 32, 36, 105, 116, 101, 109, 32, 61, 32, 36, 40, 101, 108, 41, 59, 10,
        32, 32, 32, 32, 32, 32, 32, 32, 114, 101, 116, 117, 114, 110, 32, 123, 10, 32, 32, 32,
        32, 32, 32, 32, 32, 32, 32, 36, 53, 58, 32, 36, 105, 116, 101, 109, 46, 102, 105, 110,
        100, 40, 39, 36, 54, 39, 41, 46, 116, 101, 120, 116, 40, 41, 46, 116, 114, 105, 109,
        40, 41, 44, 10, 32, 32, 32, 32, 32, 32, 32, 32, 32, 32, 36, 55, 58, 32, 36, 105, 116,
        101, 109, 46, 102, 105, 110, 100, 40, 39, 36, 56, 39, 41, 46, 97, 116, 116, 114, 40,
        39, 36, 57, 39, 41, 10, 32, 32, 32, 32, 32, 32, 32, 32, 125, 59, 10, 32, 32, 32, 32,
        32, 32, 125, 41, 46, 103, 101, 116, 40, 41, 59, 10, 32, 32, 32, 32, 32, 32, 10, 32, 32,
        32, 32, 32, 32, 114, 101, 115, 117, 108, 116, 115, 46, 112, 117, 115, 104, 40, 46, 46,
        46, 112, 97, 103, 101, 73, 116, 101, 109, 115, 41, 59, 10, 32, 32, 32, 32, 32, 32, 112,
        97, 103, 101, 43, 43, 59, 10, 32, 32, 32, 32, 32, 32, 104, 97, 115, 77, 111, 114, 101,
        80, 97, 103, 101, 115, 32, 61, 32, 112, 97, 103, 101, 73, 116, 101, 109, 115, 46, 108,
        101, 110, 103, 116, 104, 32, 62, 32, 48, 59, 10, 32, 32, 32, 32, 125, 32, 99, 97, 116,
        99, 104, 32, 40, 101, 114, 114, 111, 114, 41, 32, 123, 10, 32, 32, 32, 32, 32, 32, 99,
        111, 110, 115, 111, 108, 101, 46, 101, 114, 114, 111, 114, 40, 39, 83, 99, 114, 97,
        112, 105, 110, 103, 32, 101, 114, 114, 111, 114, 58, 39, 44, 32, 101, 114, 114, 111,
        114, 46, 109, 101, 115, 115, 97, 103, 101, 41, 59, 10, 32, 32, 32, 32, 32, 32, 98, 114,
        101, 97, 107, 59, 10, 32, 32, 32, 32, 125, 10, 32, 32, 125, 10, 32, 32, 10, 32, 32,
        114, 101, 116, 117, 114, 110, 32, 114, 101, 115, 117, 108, 116, 115, 59, 10, 125>>,
      <<50894, 46, 39029, 40, 36, 49, 44, 32, 36, 50, 44, 32, 36, 51, 44, 32, 39, 36, 52, 39, 44, 32, 39, 36, 53, 39, 44, 32, 39, 36, 54, 39, 44, 32, 39, 36, 55, 39, 44, 32, 39, 36, 56, 39, 44, 32, 39, 36, 57, 39, 41>>>>,
    \* lines 38-39: target U+7372U+51FD($1, $2, $3)
    <<<<97, 115, 121, 110, 99, 32, 102, 117, 110, 99, 116, 105, 111, 110, 32, 36, 49, 40, 36, 50, 44,
        32, 36, 51, 41, 32, 123, 10, 32, 32, 99, 111, 110, 115, 116, 32, 111, 112, 116, 105,
        111, 110, 115, 32, 61, 32, 123, 10, 32, 32, 32, 32, 109, 101, 116, 104, 111, 100, 58,
        32, 39, 71, 69, 84, 39, 44, 10, 32, 32, 32, 32, 104, 101, 97, 100, 101, 114, 115, 58,
        32, 36, 51, 10, 32, 32, 125, 59, 10, 32, 32, 10, 32, 32, 116, 114, 121, 32, 123, 10,
        32, 32, 32, 32, 99, 111, 110, 115, 116, 32, 114, 101, 115, 112, 111, 110, 115, 101, 32,
        61, 32, 97, 119, 97, 105, 116, 32, 102, 101, 116, 99, 104, 40, 36, 50, 44, 32, 111,
        112, 116, 105, 111, 110, 115, 41, 59, 10, 32, 32, 32, 32, 105, 102, 32, 40, 33, 114,
        101, 115, 112, 111, 110, 115, 101, 46, 111, 107, 41, 32, 123, 10, 32, 32, 32, 32, 32,
        32, 116, 104, 114, 111, 119, 32, 110, 101, 119, 32, 69, 114, 114, 111, 114, 40, 96, 72,
        84, 84, 80, 32, 101, 114, 114, 111, 114, 58, 32, 36, 123, 114, 101, 115, 112, 111, 110,
        115, 101, 46, 115, 116, 97, 116, 117, 115, 125, 96, 41, 59, 10, 32, 32, 32, 32, 125,
        10, 32, 32, 32, 32, 99, 111, 110, 115, 116, 32, 100, 97, 116, 97, 32, 61, 32, 97, 119,
        97, 105, 116, 32, 114, 101, 115, 112, 111, 110, 115, 101, 46, 106, 115, 111, 110, 40,
        41, 59, 10, 32, 32, 32, 32, 114, 101, 116, 117, 114, 110, 32, 100, 97, 116, 97, 59, 10,
        32, 32, 125, 32, 99, 97, 116, 99, 104, 32, 40, 101, 114, 114, 111, 114, 41, 32, 123,
        10, 32, 32, 32, 32, 99, 111, 110, 115, 111, 108, 101, 46, 101, 114, 114, 111, 114, 40,
        39, 70, 101, 116, 99, 104, 32, 101, 114, 114, 111, 114, 58, 39, 44, 32, 101, 114, 114,
        111, 114, 46, 109, 101, 115, 115, 97, 103, 101, 41, 59, 10, 32, 32, 32, 32, 116, 104,
        114, 111, 119, 32, 101, 114, 114, 111, 114, 59, 10, 32, 32, 125, 10, 125>>,
      <<29554, 20989, 40, 36, 49, 44, 32, 36, 50, 44, 32, 36, 51, 41>>>>,
    \* lines 46-47: target U+C6D2(express, app, $1, $2, $3)
    <<<<99, 111, 110, 115, 116, 32, 101, 120, 112, 114, 101, 115, 115, 32, 61, 32, 114, 101, 113,
        117, 105, 114, 101, 40, 39, 101, 120, 112, 114, 101, 115, 115, 39, 41, 59, 10, 99, 111,
        110, 115, 116, 32, 97, 112, 112, 32, 61, 32, 101, 120, 112, 114, 101, 115, 115, 40, 41,
        59, 10, 99, 111, 110, 115, 116, 32, 80, 79, 82, 84, 32, 61, 32, 36, 49, 32, 124, 124,
        32, 36, 50, 59, 10, 10, 97, 112, 112, 46, 117, 115, 101, 40, 101, 120, 112, 114, 101,
        115, 115, 46, 106, 115, 111, 110, 40, 41, 41, 59, 10, 97, 112, 112, 46, 117, 115, 101,
        40, 101, 120, 112, 114, 101, 115, 115, 46, 117, 114, 108, 101, 110, 99, 111, 100, 101,
        100, 40, 123, 32, 101, 120, 116, 101, 110, 100, 101, 100, 58, 32, 102, 97, 108, 115,
        101, 32, 125, 41, 41, 59, 10, 36, 51, 10, 97, 112, 112, 46, 108, 105, 115, 116, 101,
        110, 40, 80, 79, 82, 84, 44, 32, 40, 41, 32, 61, 62, 32, 123, 10, 32, 32, 99, 111, 110,
        115, 111, 108, 101, 46, 108, 111, 103, 40, 96, 83, 101, 114, 118, 101, 114, 32, 114,
        117, 110, 110, 105, 110, 103, 32, 111, 110, 32, 112, 111, 114, 116, 32, 36, 123, 80,
        79, 82, 84, 125, 96, 41, 59, 10, 125, 41, 59>>,
      <<50898, 40, 101, 120, 112, 114, 101, 115, 115, 44, 32, 97, 112, 112, 44, 32, 36, 49, 44, 32, 36, 50, 44, 32, 36, 51, 41>>>>,
    \* lines 50-51: target U+C6D3.U+C6C3(app, '$1', $2, $3, '$4', '$5')
    <<<<97, 112, 112, 46, 103, 101, 116, 40, 39, 36, 49, 39, 44, 32, 97, 115, 121, 110, 99, 32, 40,
        114, 101, 113, 44, 32, 114, 101, 115, 41, 32, 61, 62, 32, 123, 10, 32, 32, 116, 114,
        121, 32, 123, 10, 32, 32, 32, 32, 36, 50, 10, 32, 32, 32, 32, 114, 101, 116, 117, 114,
        110, 32, 114, 101, 115, 46, 115, 116, 97, 116, 117, 115, 40, 50, 48, 48, 41, 46, 106,
        115, 111, 110, 40, 36, 51, 41, 59, 10, 32, 32, 125, 32, 99, 97, 116, 99, 104, 32, 40,
        101, 114, 114, 111, 114, 41, 32, 123, 10, 32, 32, 32, 32, 99, 111, 110, 115, 111, 108,
        101, 46, 101, 114, 114, 111, 114, 40, 39, 36, 52, 58, 39, 44, 32, 101, 114, 114, 111,
        114, 46, 109, 101, 115, 115, 97, 103, 101, 41, 59, 10, 32, 32, 32, 32, 114, 101, 116,
        117, 114, 110, 32, 114, 101, 115, 46, 115, 116, 97, 116, 117, 115, 40, 53, 48, 48, 41,
        46, 106, 115, 111, 110, 40, 123, 32, 101, 114, 114, 111, 114, 58, 32, 39, 36, 53, 39,
        32, 125, 41, 59, 10, 32, 32, 125, 10, 125, 41, 59>>,
      <<50899, 46, 50883, 40, 97, 112, 112, 44, 32, 39, 36, 49, 39, 44, 32, 36, 50, 44, 32, 36, 51, 44, 32, 39, 36, 52, 39, 44, 32, 39, 36, 53, 39, 41>>>>,
    \* lines 54-55: target U+C6D3.U+C6CB(app, '$1', $2, $3, $4, '$5', '$6')
    <<<<97, 112, 112, 46, 112, 111, 115, 116, 40, 39, 36, 49, 39, 44, 32, 97, 115, 121, 110, 99, 32,
        40, 114, 101, 113, 44, 32, 114, 101, 115, 41, 32, 61, 62, 32, 123, 10, 32, 32, 116,
        114, 121, 32, 123, 10, 32, 32, 32, 32, 99, 111, 110, 115, 116, 32, 123, 32, 36, 50, 32,
        125, 32, 61, 32, 114, 101, 113, 46, 98, 111, 100, 121, 59, 10, 32, 32, 32, 32, 36, 51,
        10, 32, 32, 32, 32, 114, 101, 116, 117, 114, 110, 32, 114, 101, 115, 46, 115, 116, 97,
        116, 117, 115, 40, 50, 48, 49, 41, 46, 106, 115, 111, 110, 40, 36, 52, 41, 59, 10, 32,
        32, 125, 32, 99, 97, 116, 99, 104, 32, 40, 101, 114, 114, 111, 114, 41, 32, 123, 10,
        32, 32, 32, 32, 99, 111, 110, 115, 111, 108, 101, 46, 101, 114, 114, 111, 114, 40, 39,
        36, 53, 58, 39, 44, 32, 101, 114, 114, 111, 114, 46, 109, 101, 115, 115, 97, 103, 101,
        41, 59, 10, 32, 32, 32, 32, 114, 101, 116, 117, 114, 110, 32, 114, 101, 115, 46, 115,
        116, 97, 116, 117, 115, 40, 53, 48, 48, 41, 46, 106, 115, 111, 110, 40, 123, 32, 101,
        114, 114, 111, 114, 58, 32, 39, 36, 54, 39, 32, 125, 41, 59, 10, 32, 32, 125, 10, 125,
        41, 59>>,
      <<50899, 46, 50891, 40, 97, 112, 112, 44, 32, 39, 36, 49, 39, 44, 32, 36, 50, 44, 32, 36, 51, 44, 32, 36, 52, 44, 32, 39, 36, 53, 39, 44, 32, 39, 36, 54, 39, 41>>>>,
    \* lines 58-59: target U+C6D3.U+4E2D($1, $2)
    <<<<102, 117, 110, 99, 116, 105, 111, 110, 32, 36, 49, 40, 114, 101, 113, 44, 32, 114, 101, 115,
        44, 32, 110, 101, 120, 116, 41, 32, 123, 10, 32, 32, 36, 50, 10, 32, 32, 110, 101, 120,
        116, 40, 41, 59, 10, 125>>,
      <<50899, 46, 20013, 40, 36, 49, 44, 32, 36, 50, 41>>>>,
    \* lines 62-63: target U+8DEFU+7531($1)
    <<<<99, 111, 110, 115, 116, 32, 101, 120, 112, 114, 101, 115, 115, 32, 61, 32, 114, 101, 113,
        117, 105, 114, 101, 40, 39, 101, 120, 112, 114, 101, 115, 115, 39, 41, 59, 10, 99, 111,
        110, 115, 116, 32, 114, 111, 117, 116, 101, 114, 32, 61, 32, 101, 120, 112, 114, 101,
        115, 115, 46, 82, 111, 117, 116, 101, 114, 40, 41, 59, 10, 10, 36, 49, 10, 10, 109,
        111, 100, 117, 108, 101, 46, 101, 120, 112, 111, 114, 116, 115, 32, 61, 32, 114, 111,
        117, 116, 101, 114, 59>>,
      <<36335, 30001, 40, 36, 49, 41>>>>,
    \* lines 66-67: target U+63A7($1, $2, $3, $4, '$5')
    <<<<101, 120, 112, 111, 114, 116, 115, 46, 36, 49, 32, 61, 32, 97, 115, 121, 110, 99, 32, 40,
        114, 101, 113, 44, 32, 114, 101, 115, 41, 32, 61, 62, 32, 123, 10, 32, 32, 116, 114,
        121, 32, 123, 10, 32, 32, 32, 32, 36, 50, 10, 32, 32, 32, 32, 114, 101, 116, 117, 114,
        110, 32, 114, 101, 115, 46, 115, 116, 97, 116, 117, 115, 40, 36, 51, 41, 46, 106, 115,
        111, 110, 40, 36, 52, 41, 59, 10, 32, 32, 125, 32, 99, 97, 116, 99, 104, 32, 40, 101,
        114, 114, 111, 114, 41, 32, 123, 10, 32, 32, 32, 32, 99, 111, 110, 115, 111, 108, 101,
        46, 101, 114, 114, 111, 114, 40, 39, 36, 53, 58, 39, 44, 32, 101, 114, 114, 111, 114,
        46, 109, 101, 115, 115, 97, 103, 101, 41, 59, 10, 32, 32, 32, 32, 114, 101, 116, 117,
        114, 110, 32, 114, 101, 115, 46, 115, 116, 97, 116, 117, 115, 40, 53, 48, 48, 41, 46,
        106, 115, 111, 110, 40, 123, 32, 101, 114, 114, 111, 114, 58, 32, 101, 114, 114, 111,
        114, 46, 109, 101, 115, 115, 97, 103, 101, 32, 125, 41, 59, 10, 32, 32, 125, 10, 125>>,
      <<25511, 40, 36, 49, 44, 32, 36, 50, 44, 32, 36, 51, 44, 32, 36, 52, 44, 32, 39, 36, 53, 39, 41>>>>,
    \* lines 70-71: target U+6355U+624B()
    <<<<102, 117, 110, 99, 116, 105, 111, 110, 32, 101, 114, 114, 111, 114, 72, 97, 110, 100, 108,
        101, 114, 40, 101, 114, 114, 44, 32, 114, 101, 113, 44, 32, 114, 101, 115, 44, 32, 110,
        101, 120, 116, 41, 32, 123, 10, 32, 32, 99, 111, 110, 115, 116, 32, 115, 116, 97, 116,
        117, 115, 67, 111, 100, 101, 32, 61, 32, 114, 101, 115, 46, 115, 116, 97, 116, 117,
        115, 67, 111, 100, 101, 32, 61, 61, 61, 32, 50, 48, 48, 32, 63, 32, 53, 48, 48, 32, 58,
        32, 114, 101, 115, 46, 115, 116, 97, 116, 117, 115, 67, 111, 100, 101, 59, 10, 32, 32,
        114, 101, 115, 46, 115, 116, 97, 116, 117, 115, 40, 115, 116, 97, 116, 117, 115, 67,
        111, 100, 101, 41, 59, 10, 32, 32, 114, 101, 115, 46, 106, 115, 111, 110, 40, 123, 10,
        32, 32, 32, 32, 109, 101, 115, 115, 97, 103, 101, 58, 32, 101, 114, 114, 46, 109, 101,
        115, 115, 97, 103, 101, 44, 10, 32, 32, 32, 32, 115, 116, 97, 99, 107, 58, 32, 112,
        114, 111, 99, 101, 115, 115, 46, 101, 110, 118, 46, 78, 79, 68, 69, 95, 69, 78, 86, 32,
        61, 61, 61, 32, 39, 112, 114, 111, 100, 117, 99, 116, 105, 111, 110, 39, 32, 63, 32,
        110, 117, 108, 108, 32, 58, 32, 101, 114, 114, 46, 115, 116, 97, 99, 107, 10, 32, 32,
        125, 41, 59, 10, 125>>,
      <<25429, 25163, 40, 41>>>>,
    \* lines 78-79: target U+10BE(mongoose, '$1', $2, '$3', '$4')
    <<<<109, 111, 110, 103, 111, 111, 115, 101, 46, 99, 111, 110, 110, 101, 99, 116, 40, 39, 36, 49,
        39, 44, 32, 123, 10, 32, 32, 117, 115, 101, 78, 101, 119, 85, 114, 108, 80, 97, 114,
        115, 101, 114, 58, 32, 116, 114, 117, 101, 44, 10, 32, 32, 117, 115, 101, 85, 110, 105,
        102, 105, 101, 100, 84, 111, 112, 111, 108, 111, 103, 121, 58, 32, 116, 114, 117, 101,
        36, 50, 10, 125, 41, 10, 46, 116, 104, 101, 110, 40, 40, 41, 32, 61, 62, 32, 99, 111,
        110, 115, 111, 108, 101, 46, 108, 111, 103, 40, 39, 36, 51, 39, 41, 41, 10, 46, 99, 97,
        116, 99, 104, 40, 101, 114, 114, 32, 61, 62, 32, 99, 111, 110, 115, 111, 108, 101, 46,
        101, 114, 114, 111, 114, 40, 39, 36, 52, 58, 39, 44, 32, 101, 114, 114, 41, 41, 59>>,
      <<4286, 40, 109, 111, 110, 103, 111, 111, 115, 101, 44, 32, 39, 36, 49, 39, 44, 32, 36, 50, 44, 32, 39, 36, 51, 39, 44, 32, 39, 36, 52, 39, 41>>>>,
    \* lines 82-83: target U+10C0.U+10C1($1, $2, $3, $4, $5, $6, $7, $8, $9, $10, $11, '$12')
    <<<<99, 111, 110, 115, 116, 32, 36, 49, 83, 99, 104, 101, 109, 97, 32, 61, 32, 110, 101, 119, 32,
        109, 111, 110, 103, 111, 111, 115, 101, 46, 83, 99, 104, 101, 109, 97, 40, 123, 10, 32,
        32, 36, 50, 58, 32, 123, 10, 32, 32, 32, 32, 116, 121, 112, 101, 58, 32, 36, 51, 44,
        10, 32, 32, 32, 32, 114, 101, 113, 117, 105, 114, 101, 100, 58, 32, 36, 52, 36, 53, 10,
        32, 32, 125, 44, 10, 32, 32, 36, 54, 58, 32, 123, 10, 32, 32, 32, 32, 116, 121, 112,
        101, 58, 32, 36, 55, 44, 10, 32, 32, 32, 32, 100, 101, 102, 97, 117, 108, 116, 58, 32,
        36, 56, 36, 57, 10, 32, 32, 125, 36, 49, 48, 10, 125, 41, 59, 10, 10, 99, 111, 110,
        115, 116, 32, 36, 49, 49, 32, 61, 32, 109, 111, 110, 103, 111, 111, 115, 101, 46, 109,
        111, 100, 101, 108, 40, 39, 36, 49, 50, 39, 44, 32, 36, 49, 83, 99, 104, 101, 109, 97,
        41, 59>>,
      <<4288, 46, 4289, 40, 36, 49, 44, 32, 36, 50, 44, 32, 36, 51, 44, 32, 36, 52, 44, 32, 36, 53, 44, 32, 36, 54, 44, 32, 36, 55, 44, 32, 36, 56, 44, 32, 36, 57, 44, 32, 36, 49, 48, 44, 32, 36, 49, 49, 44, 32, 39, 36, 49, 50, 39, 41>>>>,
    \* lines 86-87: target U+10BA($1, $2, $3, $4, $5, '$6')
    <<<<97, 115, 121, 110, 99, 32, 102, 117, 110, 99, 116, 105, 111, 110, 32, 36, 49, 40, 36, 50, 41,
        32, 123, 10, 32, 32, 116, 114, 121, 32, 123, 10, 32, 32, 32, 32, 99, 111, 110, 115,
        116, 32, 36, 51, 32, 61, 32, 97, 119, 97, 105, 116, 32, 36, 52, 46, 102, 105, 110, 100,
        40, 36, 50, 41, 36, 53, 59, 10, 32, 32, 32, 32, 114, 101, 116, 117, 114, 110, 32, 36,
        51, 59, 10, 32, 32, 125, 32, 99, 97, 116, 99, 104, 32, 40, 101, 114, 114, 111, 114, 41,
        32, 123, 10, 32, 32, 32, 32, 99, 111, 110, 115, 111, 108, 101, 46, 101, 114, 114, 111,
        114, 40, 39, 36, 54, 58, 39, 44, 32, 101, 114, 114, 111, 114, 46, 109, 101, 115, 115,
        97, 103, 101, 41, 59, 10, 32, 32, 32, 32, 116, 104, 114, 111, 119, 32, 101, 114, 114,
        111, 114, 59, 10, 32, 32, 125, 10, 125>>,
      <<4282, 40, 36, 49, 44, 32, 36, 50, 44, 32, 36, 51, 44, 32, 36, 52, 44, 32, 36, 53, 44, 32, 39, 36, 54, 39, 41>>>>,
    \* lines 90-91: target U+10BB($1, $2, $3, $4, '$5')
    <<<<97, 115, 121, 110, 99, 32, 102, 117, 110, 99, 116, 105, 111, 110, 32, 36, 49, 40, 36, 50, 41,
        32, 123, 10, 32, 32, 116, 114, 121, 32, 123, 10, 32, 32, 32, 32, 99, 111, 110, 115,
        116, 32, 36, 51, 32, 61, 32, 110, 101, 119, 32, 36, 52, 40, 36, 50, 41, 59, 10, 32, 32,
        32, 32, 97, 119, 97, 105, 116, 32, 36, 51, 46, 115, 97, 118, 101, 40, 41, 59, 10, 32,
        32, 32, 32, 114, 101, 116, 117, 114, 110, 32, 36, 51, 59, 10, 32, 32, 125, 32, 99, 97,
        116, 99, 104, 32, 40, 101, 114, 114, 111, 114, 41, 32, 123, 10, 32, 32, 32, 32, 99,
        111, 110, 115, 111, 108, 101, 46, 101, 114, 114, 111, 114, 40, 39, 36, 53, 58, 39, 44,
        32, 101, 114, 114, 111, 114, 46, 109, 101, 115, 115, 97, 103, 101, 41, 59, 10, 32, 32,
        32, 32, 116, 104, 114, 111, 119, 32, 101, 114, 114, 111, 114, 59, 10, 32, 32, 125, 10,
        125>>,
      <<4283, 40, 36, 49, 44, 32, 36, 50, 44, 32, 36, 51, 44, 32, 36, 52, 44, 32, 39, 36, 53, 39, 41>>>>,
    \* lines 94-95: target U+338B($1, $2, $3, $4, $5, '$6', '$7')
    <<<<97, 115, 121, 110, 99, 32, 102, 117, 110, 99, 116, 105, 111, 110, 32, 36, 49, 40, 36, 50, 44,
        32, 36, 51, 41, 32, 123, 10, 32, 32, 116, 114, 121, 32, 123, 10, 32, 32, 32, 32, 99,
        111, 110, 115, 116, 32, 36, 52, 32, 61, 32, 97, 119, 97, 105, 116, 32, 36, 53, 46, 102,
        105, 110, 100, 66, 121, 73, 100, 65, 110, 100, 85, 112, 100, 97, 116, 101, 40, 36, 50,
        44, 32, 36, 51, 44, 32, 123, 32, 110, 101, 119, 58, 32, 116, 114, 117, 101, 32, 125,
        41, 59, 10, 32, 32, 32, 32, 105, 102, 32, 40, 33, 36, 52, 41, 32, 123, 10, 32, 32, 32,
        32, 32, 32, 116, 104, 114, 111, 119, 32, 110, 101, 119, 32, 69, 114, 114, 111, 114, 40,
        39, 36, 54, 39, 41, 59, 10, 32, 32, 32, 32, 125, 10, 32, 32, 32, 32, 114, 101, 116,
        117, 114, 110, 32, 36, 52, 59, 10, 32, 32, 125, 32, 99, 97, 116, 99, 104, 32, 40, 101,
        114, 114, 111, 114, 41, 32, 123, 10, 32, 32, 32, 32, 99, 111, 110, 115, 111, 108, 101,
        46, 101, 114, 114, 111, 114, 40, 39, 36, 55, 58, 39, 44, 32, 101, 114, 114, 111, 114,
        46, 109, 101, 115, 115, 97, 103, 101, 41, 59, 10, 32, 32, 32, 32, 116, 104, 114, 111,
        119, 32, 101, 114, 114, 111, 114, 59, 10, 32, 32, 125, 10, 125>>,
      <<13195, 40, 36, 49, 44, 32, 36, 50, 44, 32, 36, 51, 44, 32, 36, 52, 44, 32, 36, 53, 44, 32, 39, 36, 54, 39, 44, 32, 39, 36, 55, 39, 41>>>>,
    \* lines 98-99: target U+338C($1, $2, $3, $4, '$5', '$6')
    <<<<97, 115, 121, 110, 99, 32, 102, 117, 110, 99, 116, 105, 111, 110, 32, 36, 49, 40, 36, 50, 41,
        32, 123, 10, 32, 32, 116, 114, 121, 32, 123, 10, 32, 32, 32, 32, 99, 111, 110, 115,
        116, 32, 36, 51, 32, 61, 32, 97, 119, 97, 105, 116, 32, 36, 52, 46, 102, 105, 110, 100,
        66, 121, 73, 100, 65, 110, 100, 68, 101, 108, 101, 116, 101, 40, 36, 50, 41, 59, 10,
        32, 32, 32, 32, 105, 102, 32, 40, 33, 36, 51, 41, 32, 123, 10, 32, 32, 32, 32, 32, 32,
        116, 104, 114, 111, 119, 32, 110, 101, 119, 32, 69, 114, 114, 111, 114, 40, 39, 36, 53,
        39, 41, 59, 10, 32, 32, 32, 32, 125, 10, 32, 32, 32, 32, 114, 101, 116, 117, 114, 110,
        32, 36, 51, 59, 10, 32, 32, 125, 32, 99, 97, 116, 99, 104, 32, 40, 101, 114, 114, 111,
        114, 41, 32, 123, 10, 32, 32, 32, 32, 99, 111, 110, 115, 111, 108, 101, 46, 101, 114,
        114, 111, 114, 40, 39, 36, 54, 58, 39, 44, 32, 101, 114, 114, 111, 114, 46, 109, 101,
        115, 115, 97, 103, 101, 41, 59, 10, 32, 32, 32, 32, 116, 104, 114, 111, 119, 32, 101,
        114, 114, 111, 114, 59, 10, 32, 32, 125, 10, 125>>,
      <<13196, 40, 36, 49, 44, 32, 36, 50, 44, 32, 36, 51, 44, 32, 36, 52, 44, 32, 39, 36, 53, 39, 44, 32, 39, 36, 54, 39, 41>>>>,
    \* lines 102-103: target U+3390($1, $2, '$3', '$4')
    <<<<97, 115, 121, 110, 99, 32, 102, 117, 110, 99, 116, 105, 111, 110, 32, 36, 49, 40, 36, 50, 41,
        32, 123, 10, 32, 32, 108, 101, 116, 32, 99, 111, 110, 110, 101, 99, 116, 105, 111, 110,
        59, 10, 32, 32, 116, 114, 121, 32, 123, 10, 32, 32, 32, 32, 99, 111, 110, 110, 101, 99,
        116, 105, 111, 110, 32, 61, 32, 97, 119, 97, 105, 116, 32, 112, 111, 111, 108, 46, 103,
        101, 116, 67, 111, 110, 110, 101, 99, 116, 105, 111, 110, 40, 41, 59, 10, 32, 32, 32,
        32, 99, 111, 110, 115, 116, 32, 91, 114, 111, 119, 115, 93, 32, 61, 32, 97, 119, 97,
        105, 116, 32, 99, 111, 110, 110, 101, 99, 116, 105, 111, 110, 46, 101, 120, 101, 99,
        117, 116, 101, 40, 39, 36, 51, 39, 44, 32, 36, 50, 41, 59, 10, 32, 32, 32, 32, 114,
        101, 116, 117, 114, 110, 32, 114, 111, 119, 115, 59, 10, 32, 32, 125, 32, 99, 97, 116,
        99, 104, 32, 40, 101, 114, 114, 111, 114, 41, 32, 123, 10, 32, 32, 32, 32, 99, 111,
        110, 115, 111, 108, 101, 46, 101, 114, 114, 111, 114, 40, 39, 36, 52, 58, 39, 44, 32,
        101, 114, 114, 111, 114, 46, 109, 101, 115, 115, 97, 103, 101, 41, 59, 10, 32, 32, 32,
        32, 116, 104, 114, 111, 119, 32, 101, 114, 114, 111, 114, 59, 10, 32, 32, 125, 32, 102,
        105, 110, 97, 108, 108, 121, 32, 123, 10, 32, 32, 32, 32, 105, 102, 32, 40, 99, 111,
        110, 110, 101, 99, 116, 105, 111, 110, 41, 32, 99, 111, 110, 110, 101, 99, 116, 105,
        111, 110, 46, 114, 101, 108, 101, 97, 115, 101, 40, 41, 59, 10, 32, 32, 125, 10, 125>>,
      <<13200, 40, 36, 49, 44, 32, 36, 50, 44, 32, 39, 36, 51, 39, 44, 32, 39, 36, 52, 39, 41>>>>,
    \* lines 110-111: target U+269B($1, $2, $3, $4, $5, $6, '$7', $8)
    <<<<102, 117, 110, 99, 116, 105, 111, 110, 32, 36, 49, 40, 123, 32, 36, 50, 32, 125, 41, 32, 123,
        10, 32, 32, 99, 111, 110, 115, 116, 32, 91, 36, 51, 44, 32, 115, 101, 116, 36, 52, 93,
        32, 61, 32, 117, 115, 101, 83, 116, 97, 116, 101, 40, 36, 53, 41, 59, 10, 32, 32, 10,
        32, 32, 36, 54, 10, 32, 32, 10, 32, 32, 114, 101, 116, 117, 114, 110, 32, 40, 10, 32,
        32, 32, 32, 60, 100, 105, 118, 32, 99, 108, 97, 115, 115, 78, 97, 109, 101, 61, 34, 36,
        55, 34, 62, 10, 32, 32, 32, 32, 32, 32, 36, 56, 10, 32, 32, 32, 32, 60, 47, 100, 105,
        118, 62, 10, 32, 32, 41, 59, 10, 125>>,
      <<9883, 40, 36, 49, 44, 32, 36, 50, 44, 32, 36, 51, 44, 32, 36, 52, 44, 32, 36, 53, 44, 32, 36, 54, 44, 32, 39, 36, 55, 39, 44, 32, 36, 56, 41>>>>,
    \* lines 114-115: target U+269B.U+2699($1, $2, $3)
    <<<<117, 115, 101, 69, 102, 102, 101, 99, 116, 40, 40, 41, 32, 61, 62, 32, 123, 10, 32, 32, 36,
        49, 10, 32, 32, 10, 32, 32, 114, 101, 116, 117, 114, 110, 32, 40, 41, 32, 61, 62, 32,
        123, 10, 32, 32, 32, 32, 36, 50, 10, 32, 32, 125, 59, 10, 125, 44, 32, 91, 36, 51, 93,
        41, 59>>,
      <<9883, 46, 9881, 40, 36, 49, 44, 32, 36, 50, 44, 32, 36, 51, 41>>>>,
    \* lines 118-119: target U+269B.U+25C9($1, $2, $3, $4, $5, $6, $7, $8, $9, $10, $11, $12)
    <<<<102, 117, 110, 99, 116, 105, 111, 110, 32, 117, 115, 101, 36, 49, 40, 36, 50, 41, 32, 123,
        10, 32, 32, 99, 111, 110, 115, 116, 32, 91, 36, 51, 44, 32, 115, 101, 116, 36, 52, 93,
        32, 61, 32, 117, 115, 101, 83, 116, 97, 116, 101, 40, 36, 53, 41, 59, 10, 32, 32, 10,
        32, 32, 117, 115, 101, 69, 102, 102, 101, 99, 116, 40, 40, 41, 32, 61, 62, 32, 123, 10,
        32, 32, 32, 32, 36, 54, 10, 32, 32, 32, 32, 10, 32, 32, 32, 32, 114, 101, 116, 117,
        114, 110, 32, 40, 41, 32, 61, 62, 32, 123, 10, 32, 32, 32, 32, 32, 32, 36, 55, 10, 32,
        32, 32, 32, 125, 59, 10, 32, 32, 125, 44, 32, 91, 36, 56, 93, 41, 59, 10, 32, 32, 10,
        32, 32, 99, 111, 110, 115, 116, 32, 36, 57, 32, 61, 32, 117, 115, 101, 67, 97, 108,
        108, 98, 97, 99, 107, 40, 40, 36, 49, 48, 41, 32, 61, 62, 32, 123, 10, 32, 32, 32, 32,
        36, 49, 49, 10, 32, 32, 125, 44, 32, 91, 36, 49, 50, 93, 41, 59, 10, 32, 32, 10, 32,
        32, 114, 101, 116, 117, 114, 110, 32, 123, 32, 36, 51, 44, 32, 36, 57, 32, 125, 59, 10,
        125>>,
      <<9883, 46, 9673, 40, 36, 49, 44, 32, 36, 50, 44, 32, 36, 51, 44, 32, 36, 52, 44, 32, 36, 53, 44, 32, 36, 54, 44, 32, 36, 55, 44, 32, 36, 56, 44, 32, 36, 57, 44, 32, 36, 49, 48, 44, 32, 36, 49, 49, 44, 32, 36, 49, 50, 41>>>>,
    \* lines 122-123: target U+269B.U+26AA($1, $2, $3, $4, $5, $6)
    <<<<99, 111, 110, 115, 116, 32, 36, 49, 67, 111, 110, 116, 101, 120, 116, 32, 61, 32, 99, 114,
        101, 97, 116, 101, 67, 111, 110, 116, 101, 120, 116, 40, 41, 59, 10, 10, 101, 120, 112,
        111, 114, 116, 32, 102, 117, 110, 99, 116, 105, 111, 110, 32, 36, 49, 80, 114, 111,
        118, 105, 100, 101, 114, 40, 123, 32, 99, 104, 105, 108, 100, 114, 101, 110, 32, 125,
        41, 32, 123, 10, 32, 32, 99, 111, 110, 115, 116, 32, 91, 36, 50, 44, 32, 115, 101, 116,
        36, 51, 93, 32, 61, 32, 117, 115, 101, 83, 116, 97, 116, 101, 40, 36, 52, 41, 59, 10,
        32, 32, 10, 32, 32, 36, 53, 10, 32, 32, 10, 32, 32, 99, 111, 110, 115, 116, 32, 118,
        97, 108, 117, 101, 32, 61, 32, 123, 10, 32, 32, 32, 32, 36, 50, 44, 10, 32, 32, 32, 32,
        36, 54, 10, 32, 32, 125, 59, 10, 32, 32, 10, 32, 32, 114, 101, 116, 117, 114, 110, 32,
        40, 10, 32, 32, 32, 32, 60, 36, 49, 67, 111, 110, 116, 101, 120, 116, 46, 80, 114, 111,
        118, 105, 100, 101, 114, 32, 118, 97, 108, 117, 101, 61, 123, 118, 97, 108, 117, 101,
        125, 62, 10, 32, 32, 32, 32, 32, 32, 123, 99, 104, 105, 108, 100, 114, 101, 110, 125,
        10, 32, 32, 32, 32, 60, 47, 36, 49, 67, 111, 110, 116, 101, 120, 116, 46, 80, 114, 111,
        118, 105, 100, 101, 114, 62, 10, 32, 32, 41, 59, 10, 125, 10, 10, 101, 120, 112, 111,
        114, 116, 32, 102, 117, 110, 99, 116, 105, 111, 110, 32, 117, 115, 101, 36, 49, 40, 41,
        32, 123, 10, 32, 32, 99, 111, 110, 115, 116, 32, 99, 111, 110, 116, 101, 120, 116, 32,
        61, 32, 117, 115, 101, 67, 111, 110, 116, 101, 120, 116, 40, 36, 49, 67, 111, 110, 116,
        101, 120, 116, 41, 59, 10, 32, 32, 105, 102, 32, 40, 99, 111, 110, 116, 101, 120, 116,
        32, 61, 61, 61, 32, 117, 110, 100, 101, 102, 105, 110, 101, 100, 41, 32, 123, 10, 32,
        32, 32, 32, 116, 104, 114, 111, 119, 32, 110, 101, 119, 32, 69, 114, 114, 111, 114, 40,
        39, 117, 115, 101, 36, 49, 32, 109, 117, 115, 116, 32, 98, 101, 32, 117, 115, 101, 100,
        32, 119, 105, 116, 104, 105, 110, 32, 97, 32, 36, 49, 80, 114, 111, 118, 105, 100, 101,
        114, 39, 41, 59, 10, 32, 32, 125, 10, 32, 32, 114, 101, 116, 117, 114, 110, 32, 99,
        111, 110, 116, 101, 120, 116, 59, 10, 125>>,
      <<9883, 46, 9898, 40, 36, 49, 44, 32, 36, 50, 44, 32, 36, 51, 44, 32, 36, 52, 44, 32, 36, 53, 44, 32, 36, 54, 41>>>>,
    \* lines 130-131: target U+0F3D($1, $2, $3, $4, $5)
    <<<<102, 117, 110, 99, 116, 105, 111, 110, 32, 36, 49, 40, 36, 50, 41, 32, 123, 10, 32, 32, 114,
        101, 116, 117, 114, 110, 32, 36, 50, 46, 109, 97, 112, 40, 36, 51, 32, 61, 62, 32, 123,
        10, 32, 32, 32, 32, 36, 52, 10, 32, 32, 32, 32, 114, 101, 116, 117, 114, 110, 32, 36,
        53, 59, 10, 32, 32, 125, 41, 59, 10, 125>>,
      <<3901, 40, 36, 49, 44, 32, 36, 50, 44, 32, 36, 51, 44, 32, 36, 52, 44, 32, 36, 53, 41>>>>,
    \* lines 134-135: target U+0F3B($1, $2, $3, $4, $5, $6)
    <<<<102, 117, 110, 99, 116, 105, 111, 110, 32, 36, 49, 40, 36, 50, 44, 32, 36, 51, 41, 32, 123,
        10, 32, 32, 114, 101, 116, 117, 114, 110, 32, 36, 50, 46, 102, 105, 108, 116, 101, 114,
        40, 36, 52, 32, 61, 62, 32, 123, 10, 32, 32, 32, 32, 36, 53, 10, 32, 32, 32, 32, 114,
        101, 116, 117, 114, 110, 32, 36, 54, 59, 10, 32, 32, 125, 41, 59, 10, 125>>,
      <<3899, 40, 36, 49, 44, 32, 36, 50, 44, 32, 36, 51, 44, 32, 36, 52, 44, 32, 36, 53, 44, 32, 36, 54, 41>>>>,
    \* lines 138-139: target U+0F3C($1, $2, $3, $4, $5, $6, $7)
    <<<<102, 117, 110, 99, 116, 105, 111, 110, 32, 36, 49, 40, 36, 50, 44, 32, 36, 51, 41, 32, 123,
        10, 32, 32, 114, 101, 116, 117, 114, 110, 32, 36, 50, 46, 114, 101, 100, 117, 99, 101,
        40, 40, 36, 52, 44, 32, 36, 53, 41, 32, 61, 62, 32, 123, 10, 32, 32, 32, 32, 36, 54,
        10, 32, 32, 32, 32, 114, 101, 116, 117, 114, 110, 32, 36, 55, 59, 10, 32, 32, 125, 44,
        32, 36, 51, 41, 59, 10, 125>>,
      <<3900, 40, 36, 49, 44, 32, 36, 50, 44, 32, 36, 51, 44, 32, 36, 52, 44, 32, 36, 53, 44, 32, 36, 54, 44, 32, 36, 55, 41>>>>,
    \* lines 142-143: target U+0F3F($1, $2, $3, $4)
    <<<<102, 117, 110, 99, 116, 105, 111, 110, 32, 36, 49, 40, 36, 50, 41, 32, 123, 10, 32, 32, 114,
        101, 116, 117, 114, 110, 32, 36, 50, 10, 32, 32, 32, 32, 46, 102, 105, 108, 116, 101,
        114, 40, 105, 116, 101, 109, 32, 61, 62, 32, 105, 116, 101, 109, 32, 33, 61, 61, 32,
        110, 117, 108, 108, 32, 38, 38, 32, 105, 116, 101, 109, 32, 33, 61, 61, 32, 117, 110,
        100, 101, 102, 105, 110, 101, 100, 41, 10, 32, 32, 32, 32, 46, 109, 97, 112, 40, 105,
        116, 101, 109, 32, 61, 62, 32, 123, 10, 32, 32, 32, 32, 32, 32, 36, 51, 10, 32, 32, 32,
        32, 32, 32, 114, 101, 116, 117, 114, 110, 32, 36, 52, 59, 10, 32, 32, 32, 32, 125, 41,
        59, 10, 125>>,
      <<3903, 40, 36, 49, 44, 32, 36, 50, 44, 32, 36, 51, 44, 32, 36, 52, 41>>>>,
    \* lines 146-147: target U+2301($1, $2, $3, $4, $5, $6, $7, $8, $9, $10, $11, $12)
    <<<<102, 117, 110, 99, 116, 105, 111, 110, 32, 36, 49, 40, 36, 50, 41, 32, 123, 10, 32, 32, 114,
        101, 116, 117, 114, 110, 32, 36, 50, 10, 32, 32, 32, 32, 46, 102, 105, 108, 116, 101,
        114, 40, 36, 51, 32, 61, 62, 32, 36, 52, 41, 10, 32, 32, 32, 32, 46, 109, 97, 112, 40,
        36, 53, 32, 61, 62, 32, 123, 10, 32, 32, 32, 32, 32, 32, 36, 54, 10, 32, 32, 32, 32,
        32, 32, 114, 101, 116, 117, 114, 110, 32, 36, 55, 59, 10, 32, 32, 32, 32, 125, 41, 10,
        32, 32, 32, 32, 46, 114, 101, 100, 117, 99, 101, 40, 40, 36, 56, 44, 32, 36, 57, 41,
        32, 61, 62, 32, 123, 10, 32, 32, 32, 32, 32, 32, 36, 49, 48, 10, 32, 32, 32, 32, 32,
        32, 114, 101, 116, 117, 114, 110, 32, 36, 49, 49, 59, 10, 32, 32, 32, 32, 125, 44, 32,
        36, 49, 50, 41, 59, 10, 125>>,
      <<8961, 40, 36, 49, 44, 32, 36, 50, 44, 32, 36, 51, 44, 32, 36, 52, 44, 32, 36, 53, 44, 32, 36, 54, 44, 32, 36, 55, 44, 32, 36, 56, 44, 32, 36, 57, 44, 32, 36, 49, 48, 44, 32, 36, 49, 49, 44, 32, 36, 49, 50, 41>>>>,
    \* lines 150-151: target U+2A5A($1, $2, $3, $4, $5)
    <<<<102, 117, 110, 99, 116, 105, 111, 110, 32, 36, 49, 40, 36, 50, 44, 32, 36, 51, 41, 32, 123,
        10, 32, 32, 114, 101, 116, 117, 114, 110, 32, 36, 50, 46, 114, 101, 100, 117, 99, 101,
        40, 40, 36, 52, 44, 32, 36, 53, 41, 32, 61, 62, 32, 123, 10, 32, 32, 32, 32, 99, 111,
        110, 115, 116, 32, 107, 101, 121, 32, 61, 32, 36, 53, 91, 36, 51, 93, 59, 10, 32, 32,
        32, 32, 105, 102, 32, 40, 33, 36, 52, 91, 107, 101, 121, 93, 41, 32, 123, 10, 32, 32,
        32, 32, 32, 32, 36, 52, 91, 107, 101, 121, 93, 32, 61, 32, 91, 93, 59, 10, 32, 32, 32,
        32, 125, 10, 32, 32, 32, 32, 36, 52, 91, 107, 101, 121, 93, 46, 112, 117, 115, 104, 40,
        36, 53, 41, 59, 10, 32, 32, 32, 32, 114, 101, 116, 117, 114, 110, 32, 36, 52, 59, 10,
        32, 32, 125, 44, 32, 123, 125, 41, 59, 10, 125>>,
      <<10842, 40, 36, 49, 44, 32, 36, 50, 44, 32, 36, 51, 44, 32, 36, 52, 44, 32, 36, 53, 41>>>>,
    \* lines 154-155: target U+2A5B($1, $2, $3)
    <<<<102, 117, 110, 99, 116, 105, 111, 110, 32, 36, 49, 40, 36, 50, 44, 32, 36, 51, 32, 61, 32,
        49, 41, 32, 123, 10, 32, 32, 114, 101, 116, 117, 114, 110, 32, 36, 51, 32, 62, 32, 48,
        10, 32, 32, 32, 32, 63, 32, 36, 50, 46, 114, 101, 100, 117, 99, 101, 40, 10, 32, 32,
        32, 32, 32, 32, 32, 32, 40, 97, 99, 99, 44, 32, 118, 97, 108, 41, 32, 61, 62, 32, 97,
        99, 99, 46, 99, 111, 110, 99, 97, 116, 40, 10, 32, 32, 32, 32, 32, 32, 32, 32, 32, 32,
        65, 114, 114, 97, 121, 46, 105, 115, 65, 114, 114, 97, 121, 40, 118, 97, 108, 41, 32,
        10, 32, 32, 32, 32, 32, 32, 32, 32, 32, 32, 32, 32, 63, 32, 36, 49, 40, 118, 97, 108,
        44, 32, 36, 51, 32, 45, 32, 49, 41, 10, 32, 32, 32, 32, 32, 32, 32, 32, 32, 32, 32, 32,
        58, 32, 118, 97, 108, 10, 32, 32, 32, 32, 32, 32, 32, 32, 41, 44, 10, 32, 32, 32, 32,
        32, 32, 32, 32, 91, 93, 10, 32, 32, 32, 32, 32, 32, 41, 10, 32, 32, 32, 32, 58, 32, 36,
        50, 46, 115, 108, 105, 99, 101, 40, 41, 59, 10, 125>>,
      <<10843, 40, 36, 49, 44, 32, 36, 50, 44, 32, 36, 51, 41>>>>,
    \* lines 162-163: target U+156E.U+975E($1, $2, $3, $4, '$5', $6)
    <<<<97, 115, 121, 110, 99, 32, 102, 117, 110, 99, 116, 105, 111, 110, 32, 36, 49, 40, 36, 50, 41,
        32, 123, 10, 32, 32, 116, 114, 121, 32, 123, 10, 32, 32, 32, 32, 36, 51, 10, 32, 32,
        32, 32, 114, 101, 116, 117, 114, 110, 32, 36, 52, 59, 10, 32, 32, 125, 32, 99, 97, 116,
        99, 104, 32, 40, 101, 114, 114, 111, 114, 41, 32, 123, 10, 32, 32, 32, 32, 99, 111,
        110, 115, 111, 108, 101, 46, 101, 114, 114, 111, 114, 40, 39, 36, 53, 58, 39, 44, 32,
        101, 114, 114, 111, 114, 46, 109, 101, 115, 115, 97, 103, 101, 41, 59, 10, 32, 32, 32,
        32, 36, 54, 10, 32, 32, 125, 10, 125>>,
      <<5486, 46, 38750, 40, 36, 49, 44, 32, 36, 50, 44, 32, 36, 51, 44, 32, 36, 52, 44, 32, 39, 36, 53, 39, 44, 32, 36, 54, 41>>>>,
    \* lines 166-167: target U+156E($1, $2, $3, $4, '$5', $6)
    <<<<102, 117, 110, 99, 116, 105, 111, 110, 32, 36, 49, 40, 36, 50, 41, 32, 123, 10, 32, 32, 116,
        114, 121, 32, 123, 10, 32, 32, 32, 32, 36, 51, 10, 32, 32, 32, 32, 114, 101, 116, 117,
        114, 110, 32, 36, 52, 59, 10, 32, 32, 125, 32, 99, 97, 116, 99, 104, 32, 40, 101, 114,
        114, 111, 114, 41, 32, 123, 10, 32, 32, 32, 32, 99, 111, 110, 115, 111, 108, 101, 46,
        101, 114, 114, 111, 114, 40, 39, 36, 53, 58, 39, 44, 32, 101, 114, 114, 111, 114, 46,
        109, 101, 115, 115, 97, 103, 101, 41, 59, 10, 32, 32, 32, 32, 36, 54, 10, 32, 32, 125,
        10, 125>>,
      <<5486, 40, 36, 49, 44, 32, 36, 50, 44, 32, 36, 51, 44, 32, 36, 52, 44, 32, 39, 36, 53, 39, 44, 32, 36, 54, 41>>>>,
    \* lines 170-171: target U+156F($1, $2, '$3', '$4', '$5', $6, $7)
    <<<<102, 117, 110, 99, 116, 105, 111, 110, 32, 36, 49, 40, 36, 50, 41, 32, 123, 10, 32, 32, 105,
        102, 32, 40, 33, 36, 50, 41, 32, 123, 10, 32, 32, 32, 32, 116, 104, 114, 111, 119, 32,
        110, 101, 119, 32, 69, 114, 114, 111, 114, 40, 39, 36, 51, 39, 41, 59, 10, 32, 32, 125,
        10, 32, 32, 105, 102, 32, 40, 116, 121, 112, 101, 111, 102, 32, 36, 50, 32, 33, 61, 61,
        32, 39, 36, 52, 39, 41, 32, 123, 10, 32, 32, 32, 32, 116, 104, 114, 111, 119, 32, 110,
        101, 119, 32, 69, 114, 114, 111, 114, 40, 39, 36, 53, 39, 41, 59, 10, 32, 32, 125, 10,
        32, 32, 36, 54, 10, 32, 32, 114, 101, 116, 117, 114, 110, 32, 36, 55, 59, 10, 125>>,
      <<5487, 40, 36, 49, 44, 32, 36, 50, 44, 32, 39, 36, 51, 39, 44, 32, 39, 36, 52, 39, 44, 32, 39, 36, 53, 39, 44, 32, 36, 54, 44, 32, 36, 55, 41>>>>,
    \* lines 174-175: target U+1572($1, $2, $3)
    <<<<99, 108, 97, 115, 115, 32, 36, 49, 69, 114, 114, 111, 114, 32, 101, 120, 116, 101, 110, 100,
        115, 32, 69, 114, 114, 111, 114, 32, 123, 10, 32, 32, 99, 111, 110, 115, 116, 114, 117,
        99, 116, 111, 114, 40, 36, 50, 41, 32, 123, 10, 32, 32, 32, 32, 115, 117, 112, 101,
        114, 40, 36, 50, 41, 59, 10, 32, 32, 32, 32, 116, 104, 105, 115, 46, 110, 97, 109, 101,
        32, 61, 32, 39, 36, 49, 69, 114, 114, 111, 114, 39, 59, 10, 32, 32, 32, 32, 36, 51, 10,
        32, 32, 125, 10, 125>>,
      <<5490, 40, 36, 49, 44, 32, 36, 50, 44, 32, 36, 51, 41>>>>,
    \* lines 178-179: target U+1566($1, $2, $3)
    <<<<97, 115, 121, 110, 99, 32, 102, 117, 110, 99, 116, 105, 111, 110, 32, 36, 49, 40, 36, 50, 44,
        32, 123, 32, 109, 97, 120, 82, 101, 116, 114, 105, 101, 115, 32, 61, 32, 51, 44, 32,
        100, 101, 108, 97, 121, 32, 61, 32, 49, 48, 48, 48, 44, 32, 102, 97, 99, 116, 111, 114,
        32, 61, 32, 50, 32, 125, 32, 61, 32, 123, 125, 41, 32, 123, 10, 32, 32, 108, 101, 116,
        32, 108, 97, 115, 116, 69, 114, 114, 111, 114, 59, 10, 32, 32, 10, 32, 32, 102, 111,
        114, 32, 40, 108, 101, 116, 32, 97, 116, 116, 101, 109, 112, 116, 32, 61, 32, 48, 59,
        32, 97, 116, 116, 101, 109, 112, 116, 32, 60, 32, 109, 97, 120, 82, 101, 116, 114, 105,
        101, 115, 59, 32, 97, 116, 116, 101, 109, 112, 116, 43, 43, 41, 32, 123, 10, 32, 32,
        32, 32, 116, 114, 121, 32, 123, 10, 32, 32, 32, 32, 32, 32, 114, 101, 116, 117, 114,
        110, 32, 97, 119, 97, 105, 116, 32, 36, 50, 40, 41, 59, 10, 32, 32, 32, 32, 125, 32,
        99, 97, 116, 99, 104, 32, 40, 101, 114, 114, 111, 114, 41, 32, 123, 10, 32, 32, 32, 32,
        32, 32, 99, 111, 110, 115, 111, 108, 101, 46, 119, 97, 114, 110, 40, 96, 65, 116, 116,
        101, 109, 112, 116, 32, 36, 123, 97, 116, 116, 101, 109, 112, 116, 32, 43, 32, 49, 125,
        47, 36, 51, 32, 102, 97, 105, 108, 101, 100, 58, 96, 44, 32, 101, 114, 114, 111, 114,
        46, 109, 101, 115, 115, 97, 103, 101, 41, 59, 10, 32, 32, 32, 32, 32, 32, 108, 97, 115,
        116, 69, 114, 114, 111, 114, 32, 61, 32, 101, 114, 114, 111, 114, 59, 10, 32, 32, 32,
        32, 32, 32, 10, 32, 32, 32, 32, 32, 32, 99, 111, 110, 115, 116, 32, 116, 105, 109, 101,
        111, 117, 116, 32, 61, 32, 100, 101, 108, 97, 121, 32, 42, 32, 77, 97, 116, 104, 46,
        112, 111, 119, 40, 102, 97, 99, 116, 111, 114, 44, 32, 97, 116, 116, 101, 109, 112,
        116, 41, 59, 10, 32, 32, 32, 32, 32, 32, 97, 119, 97, 105, 116, 32, 110, 101, 119, 32,
        80, 114, 111, 109, 105, 115, 101, 40, 114, 101, 115, 111, 108, 118, 101, 32, 61, 62,
        32, 115, 101, 116, 84, 105, 109, 101, 111, 117, 116, 40, 114, 101, 115, 111, 108, 118,
        101, 44, 32, 116, 105, 109, 101, 111, 117, 116, 41, 41, 59, 10, 32, 32, 32, 32, 125,
        10, 32, 32, 125, 10, 32, 32, 10, 32, 32, 116, 104, 114, 111, 119, 32, 108, 97, 115,
        116, 69, 114, 114, 111, 114, 59, 10, 125>>,
      <<5478, 40, 36, 49, 44, 32, 36, 50, 44, 32, 36, 51, 41>>>>,
    \* lines 186-187: target U+C6D4($1, '$2', '$3', '$4', $5, '$6')
    <<<<102, 117, 110, 99, 116, 105, 111, 110, 32, 36, 49, 40, 114, 101, 113, 44, 32, 114, 101, 115,
        44, 32, 110, 101, 120, 116, 41, 32, 123, 10, 32, 32, 99, 111, 110, 115, 116, 32, 116,
        111, 107, 101, 110, 32, 61, 32, 114, 101, 113, 46, 104, 101, 97, 100, 101, 114, 40, 39,
        36, 50, 39, 41, 59, 10, 32, 32, 105, 102, 32, 40, 33, 116, 111, 107, 101, 110, 41, 32,
        123, 10, 32, 32, 32, 32, 114, 101, 116, 117, 114, 110, 32, 114, 101, 115, 46, 115, 116,
        97, 116, 117, 115, 40, 52, 48, 49, 41, 46, 106, 115, 111, 110, 40, 123, 32, 109, 115,
        103, 58, 32, 39, 36, 51, 39, 32, 125, 41, 59, 10, 32, 32, 125, 10, 32, 32, 116, 114,
        121, 32, 123, 10, 32, 32, 32, 32, 99, 111, 110, 115, 116, 32, 100, 101, 99, 111, 100,
        101, 100, 32, 61, 32, 106, 119, 116, 46, 118, 101, 114, 105, 102, 121, 40, 116, 111,
        107, 101, 110, 44, 32, 39, 36, 52, 39, 41, 59, 10, 32, 32, 32, 32, 114, 101, 113, 46,
        36, 53, 32, 61, 32, 100, 101, 99, 111, 100, 101, 100, 46, 36, 53, 59, 10, 32, 32, 32,
        32, 110, 101, 120, 116, 40, 41, 59, 10, 32, 32, 125, 32, 99, 97, 116, 99, 104, 32, 40,
        101, 114, 114, 41, 32, 123, 10, 32, 32, 32, 32, 114, 101, 115, 46, 115, 116, 97, 116,
        117, 115, 40, 52, 48, 49, 41, 46, 106, 115, 111, 110, 40, 123, 32, 109, 115, 103, 58,
        32, 39, 36, 54, 39, 32, 125, 41, 59, 10, 32, 32, 125, 10, 125>>,
      <<50900, 40, 36, 49, 44, 32, 39, 36, 50, 39, 44, 32, 39, 36, 51, 39, 44, 32, 39, 36, 52, 39, 44, 32, 36, 53, 44, 32, 39, 36, 54, 39, 41>>>>,
    \* lines 190-191: target U+AB9A($1, $2, $3, $4, $5, '$6', '$7', $8, '$9', $10, '$11', '$12')
    <<<<97, 115, 121, 110, 99, 32, 102, 117, 110, 99, 116, 105, 111, 110, 32, 36, 49, 40, 114, 101,
        113, 44, 32, 114, 101, 115, 41, 32, 123, 10, 32, 32, 99, 111, 110, 115, 116, 32, 123,
        32, 36, 50, 44, 32, 36, 51, 32, 125, 32, 61, 32, 114, 101, 113, 46, 98, 111, 100, 121,
        59, 10, 32, 32, 116, 114, 121, 32, 123, 10, 32, 32, 32, 32, 108, 101, 116, 32, 36, 52,
        32, 61, 32, 97, 119, 97, 105, 116, 32, 36, 53, 46, 102, 105, 110, 100, 79, 110, 101,
        40, 123, 32, 36, 50, 32, 125, 41, 59, 10, 32, 32, 32, 32, 105, 102, 32, 40, 33, 36, 52,
        41, 32, 123, 10, 32, 32, 32, 32, 32, 32, 114, 101, 116, 117, 114, 110, 32, 114, 101,
        115, 46, 115, 116, 97, 116, 117, 115, 40, 52, 48, 48, 41, 46, 106, 115, 111, 110, 40,
        123, 32, 109, 115, 103, 58, 32, 39, 36, 54, 39, 32, 125, 41, 59, 10, 32, 32, 32, 32,
        125, 10, 32, 32, 32, 32, 99, 111, 110, 115, 116, 32, 105, 115, 77, 97, 116, 99, 104,
        32, 61, 32, 97, 119, 97, 105, 116, 32, 98, 99, 114, 121, 112, 116, 46, 99, 111, 109,
        112, 97, 114, 101, 40, 36, 51, 44, 32, 36, 52, 46, 36, 51, 41, 59, 10, 32, 32, 32, 32,
        105, 102, 32, 40, 33, 105, 115, 77, 97, 116, 99, 104, 41, 32, 123, 10, 32, 32, 32, 32,
        32, 32, 114, 101, 116, 117, 114, 110, 32, 114, 101, 115, 46, 115, 116, 97, 116, 117,
        115, 40, 52, 48, 48, 41, 46, 106, 115, 111, 110, 40, 123, 32, 109, 115, 103, 58, 32,
        39, 36, 55, 39, 32, 125, 41, 59, 10, 32, 32, 32, 32, 125, 10, 32, 32, 32, 32, 99, 111,
        110, 115, 116, 32, 112, 97, 121, 108, 111, 97, 100, 32, 61, 32, 123, 10, 32, 32, 32,
        32, 32, 32, 36, 56, 58, 32, 36, 52, 46, 105, 100, 10, 32, 32, 32, 32, 125, 59, 10, 32,
        32, 32, 32, 106, 119, 116, 46, 115, 105, 103, 110, 40, 112, 97, 121, 108, 111, 97, 100,
        44, 32, 39, 36, 57, 39, 44, 32, 123, 32, 101, 120, 112, 105, 114, 101, 115, 73, 110,
        58, 32, 36, 49, 48, 32, 125, 44, 32, 40, 101, 114, 114, 44, 32, 116, 111, 107, 101,
        110, 41, 32, 61, 62, 32, 123, 10, 32, 32, 32, 32, 32, 32, 105, 102, 32, 40, 101, 114,
        114, 41, 32, 116, 104, 114, 111, 119, 32, 101, 114, 114, 59, 10, 32, 32, 32, 32, 32,
        32, 114, 101, 115, 46, 106, 115, 111, 110, 40, 123, 32, 116, 111, 107, 101, 110, 32,
        125, 41, 59, 10, 32, 32, 32, 32, 125, 41, 59, 10, 32, 32, 125, 32, 99, 97, 116, 99,
        104, 32, 40, 101, 114, 114, 41, 32, 123, 10, 32, 32, 32, 32, 99, 111, 110, 115, 111,
        108, 101, 46, 101, 114, 114, 111, 114, 40, 39, 36, 49, 49, 58, 39, 44, 32, 101, 114,
        114, 46, 109, 101, 115, 115, 97, 103, 101, 41, 59, 10, 32, 32, 32, 32, 114, 101, 115,
        46, 115, 116, 97, 116, 117, 115, 40, 53, 48, 48, 41, 46, 115, 101, 110, 100, 40, 39,
        36, 49, 50, 39, 41, 59, 10, 32, 32, 125, 10, 125>>,
      <<43930, 40, 36, 49, 44, 32, 36, 50, 44, 32, 36, 51, 44, 32, 36, 52, 44, 32, 36, 53, 44, 32, 39, 36, 54, 39, 44, 32, 39, 36, 55, 39, 44, 32, 36, 56, 44, 32, 39, 36, 57, 39, 44, 32, 36, 49, 48, 44, 32, 39, 36, 49, 49, 39, 44, 32, 39, 36, 49, 50, 39, 41>>>>,
    \* lines 194-195: target U+AB91($1, $2, $3, $4, $5, '$6', '$7', $8, '$9', '$10')
    <<<<97, 115, 121, 110, 99, 32, 102, 117, 110, 99, 116, 105, 111, 110, 32, 36, 49, 40, 114, 101,
        113, 44, 32, 114, 101, 115, 41, 32, 123, 10, 32, 32, 99, 111, 110, 115, 116, 32, 123,
        32, 36, 50, 44, 32, 36, 51, 44, 32, 36, 52, 32, 125, 32, 61, 32, 114, 101, 113, 46, 98,
        111, 100, 121, 59, 10, 10, 32, 32, 116, 114, 121, 32, 123, 10, 32, 32, 32, 32, 108,
        101, 116, 32, 117, 115, 101, 114, 32, 61, 32, 97, 119, 97, 105, 116, 32, 36, 53, 46,
        102, 105, 110, 100, 79, 110, 101, 40, 123, 32, 36, 51, 32, 125, 41, 59, 10, 32, 32, 32,
        32, 105, 102, 32, 40, 117, 115, 101, 114, 41, 32, 123, 10, 32, 32, 32, 32, 32, 32, 114,
        101, 116, 117, 114, 110, 32, 114, 101, 115, 46, 115, 116, 97, 116, 117, 115, 40, 52,
        48, 48, 41, 46, 106, 115, 111, 110, 40, 123, 32, 109, 115, 103, 58, 32, 39, 36, 54, 39,
        32, 125, 41, 59, 10, 32, 32, 32, 32, 125, 10, 10, 32, 32, 32, 32, 117, 115, 101, 114,
        32, 61, 32, 110, 101, 119, 32, 36, 53, 40, 123, 10, 32, 32, 32, 32, 32, 32, 36, 50, 44,
        10, 32, 32, 32, 32, 32, 32, 36, 51, 44, 10, 32, 32, 32, 32, 32, 32, 36, 52, 10, 32, 32,
        32, 32, 125, 41, 59, 10, 10, 32, 32, 32, 32, 99, 111, 110, 115, 116, 32, 115, 97, 108,
        116, 32, 61, 32, 97, 119, 97, 105, 116, 32, 98, 99, 114, 121, 112, 116, 46, 103, 101,
        110, 83, 97, 108, 116, 40, 49, 48, 41, 59, 10, 32, 32, 32, 32, 117, 115, 101, 114, 46,
        36, 52, 32, 61, 32, 97, 119, 97, 105, 116, 32, 98, 99, 114, 121, 112, 116, 46, 104, 97,
        115, 104, 40, 117, 115, 101, 114, 46, 36, 52, 44, 32, 115, 97, 108, 116, 41, 59, 10,
        10, 32, 32, 32, 32, 97, 119, 97, 105, 116, 32, 117, 115, 101, 114, 46, 115, 97, 118,
        101, 40, 41, 59, 10, 32, 32, 32, 32, 10, 32, 32, 32, 32, 99, 111, 110, 115, 116, 32,
        112, 97, 121, 108, 111, 97, 100, 32, 61, 32, 123, 10, 32, 32, 32, 32, 32, 32, 117, 115,
        101, 114, 58, 32, 123, 10, 32, 32, 32, 32, 32, 32, 32, 32, 105, 100, 58, 32, 117, 115,
        101, 114, 46, 105, 100, 10, 32, 32, 32, 32, 32, 32, 125, 10, 32, 32, 32, 32, 125, 59,
        10, 10, 32, 32, 32, 32, 106, 119, 116, 46, 115, 105, 103, 110, 40, 10, 32, 32, 32, 32,
        32, 32, 112, 97, 121, 108, 111, 97, 100, 44, 10, 32, 32, 32, 32, 32, 32, 39, 36, 55,
        39, 44, 10, 32, 32, 32, 32, 32, 32, 123, 32, 101, 120, 112, 105, 114, 101, 115, 73,
        110, 58, 32, 36, 56, 32, 125, 44, 10, 32, 32, 32, 32, 32, 32, 40, 101, 114, 114, 44,
        32, 116, 111, 107, 101, 110, 41, 32, 61, 62, 32, 123, 10, 32, 32, 32, 32, 32, 32, 32,
        32, 105, 102, 32, 40, 101, 114, 114, 41, 32, 116, 104, 114, 111, 119, 32, 101, 114,
        114, 59, 10, 32, 32, 32, 32, 32, 32, 32, 32, 114, 101, 115, 46, 106, 115, 111, 110, 40,
        123, 32, 116, 111, 107, 101, 110, 32, 125, 41, 59, 10, 32, 32, 32, 32, 32, 32, 125, 10,
        32, 32, 32, 32, 41, 59, 10, 32, 32, 125, 32, 99, 97, 116, 99, 104, 32, 40, 101, 114,
        114, 41, 32, 123, 10, 32, 32, 32, 32, 99, 111, 110, 115, 111, 108, 101, 46, 101, 114,
        114, 111, 114, 40, 39, 36, 57, 58, 39, 44, 32, 101, 114, 114, 46, 109, 101, 115, 115,
        97, 103, 101, 41, 59, 10, 32, 32, 32, 32, 114, 101, 115, 46, 115, 116, 97, 116, 117,
        115, 40, 53, 48, 48, 41, 46, 115, 101, 110, 100, 40, 39, 36, 49, 48, 39, 41, 59, 10,
        32, 32, 125, 10, 125>>,
      <<43921, 40, 36, 49, 44, 32, 36, 50, 44, 32, 36, 51, 44, 32, 36, 52, 44, 32, 36, 53, 44, 32, 39, 36, 54, 39, 44, 32, 39, 36, 55, 39, 44, 32, 36, 56, 44, 32, 39, 36, 57, 39, 44, 32, 39, 36, 49, 48, 39, 41>>>>,
    \* lines 198-199: target U+AB80($1, $2, '$3', '$4', '$5')
    <<<<102, 117, 110, 99, 116, 105, 111, 110, 32, 36, 49, 40, 114, 101, 113, 44, 32, 114, 101, 115,
        41, 32, 123, 10, 32, 32, 99, 111, 110, 115, 116, 32, 111, 97, 117, 116, 104, 50, 67,
        108, 105, 101, 110, 116, 32, 61, 32, 110, 101, 119, 32, 79, 65, 117, 116, 104, 50, 67,
        108, 105, 101, 110, 116, 40, 10, 32, 32, 32, 32, 112, 114, 111, 99, 101, 115, 115, 46,
        101, 110, 118, 46, 36, 50, 95, 67, 76, 73, 69, 78, 84, 95, 73, 68, 44, 10, 32, 32, 32,
        32, 112, 114, 111, 99, 101, 115, 115, 46, 101, 110, 118, 46, 36, 50, 95, 67, 76, 73,
        69, 78, 84, 95, 83, 69, 67, 82, 69, 84, 44, 10, 32, 32, 32, 32, 39, 36, 51, 39, 10, 32,
        32, 41, 59, 10, 10, 32, 32, 99, 111, 110, 115, 116, 32, 97, 117, 116, 104, 85, 114,
        108, 32, 61, 32, 111, 97, 117, 116, 104, 50, 67, 108, 105, 101, 110, 116, 46, 103, 101,
        110, 101, 114, 97, 116, 101, 65, 117, 116, 104, 85, 114, 108, 40, 123, 10, 32, 32, 32,
        32, 97, 99, 99, 101, 115, 115, 95, 116, 121, 112, 101, 58, 32, 39, 111, 102, 102, 108,
        105, 110, 101, 39, 44, 10, 32, 32, 32, 32, 115, 99, 111, 112, 101, 58, 32, 91, 39, 36,
        52, 39, 44, 32, 39, 36, 53, 39, 93, 44, 10, 32, 32, 32, 32, 112, 114, 111, 109, 112,
        116, 58, 32, 39, 99, 111, 110, 115, 101, 110, 116, 39, 10, 32, 32, 125, 41, 59, 10, 10,
        32, 32, 114, 101, 115, 46, 114, 101, 100, 105, 114, 101, 99, 116, 40, 97, 117, 116,
        104, 85, 114, 108, 41, 59, 10, 125>>,
      <<43904, 40, 36, 49, 44, 32, 36, 50, 44, 32, 39, 36, 51, 39, 44, 32, 39, 36, 52, 39, 44, 32, 39, 36, 53, 39, 41>>>>,
    \* lines 206-207: target U+A66E($1, $2, '$3', '$4', $5)
    <<<<102, 117, 110, 99, 116, 105, 111, 110, 32, 36, 49, 40, 36, 50, 41, 32, 123, 10, 32, 32, 116,
        114, 121, 32, 123, 10, 32, 32, 32, 32, 99, 111, 110, 115, 116, 32, 100, 97, 116, 97,
        32, 61, 32, 102, 115, 46, 114, 101, 97, 100, 70, 105, 108, 101, 83, 121, 110, 99, 40,
        36, 50, 44, 32, 39, 36, 51, 39, 41, 59, 10, 32, 32, 32, 32, 114, 101, 116, 117, 114,
        110, 32, 100, 97, 116, 97, 59, 10, 32, 32, 125, 32, 99, 97, 116, 99, 104, 32, 40, 101,
        114, 114, 111, 114, 41, 32, 123, 10, 32, 32, 32, 32, 99, 111, 110, 115, 111, 108, 101,
        46, 101, 114, 114, 111, 114, 40, 39, 36, 52, 58, 39, 44, 32, 101, 114, 114, 111, 114,
        46, 109, 101, 115, 115, 97, 103, 101, 41, 59, 10, 32, 32, 32, 32, 36, 53, 10, 32, 32,
        125, 10, 125>>,
      <<42606, 40, 36, 49, 44, 32, 36, 50, 44, 32, 39, 36, 51, 39, 44, 32, 39, 36, 52, 39, 44, 32, 36, 53, 41>>>>,
    \* lines 210-211: target U+C6CF($1, $2, $3, '$4', '$5')
    <<<<102, 117, 110, 99, 116, 105, 111, 110, 32, 36, 49, 40, 36, 50, 44, 32, 36, 51, 41, 32, 123,
        10, 32, 32, 116, 114, 121, 32, 123, 10, 32, 32, 32, 32, 102, 115, 46, 119, 114, 105,
        116, 101, 70, 105, 108, 101, 83, 121, 110, 99, 40, 36, 50, 44, 32, 36, 51, 41, 59, 10,
        32, 32, 32, 32, 99, 111, 110, 115, 111, 108, 101, 46, 108, 111, 103, 40, 96, 36, 52,
        32, 36, 123, 36, 50, 125, 96, 41, 59, 10, 32, 32, 32, 32, 114, 101, 116, 117, 114, 110,
        32, 116, 114, 117, 101, 59, 10, 32, 32, 125, 32, 99, 97, 116, 99, 104, 32, 40, 101,
        114, 114, 111, 114, 41, 32, 123, 10, 32, 32, 32, 32, 99, 111, 110, 115, 111, 108, 101,
        46, 101, 114, 114, 111, 114, 40, 39, 36, 53, 58, 39, 44, 32, 101, 114, 114, 111, 114,
        46, 109, 101, 115, 115, 97, 103, 101, 41, 59, 10, 32, 32, 32, 32, 114, 101, 116, 117,
        114, 110, 32, 102, 97, 108, 115, 101, 59, 10, 32, 32, 125, 10, 125>>,
      <<50895, 40, 36, 49, 44, 32, 36, 50, 44, 32, 36, 51, 44, 32, 39, 36, 52, 39, 44, 32, 39, 36, 53, 39, 41>>>>,
    \* lines 214-215: target U+A670($1, $2, $3)
    <<<<102, 117, 110, 99, 116, 105, 111, 110, 32, 36, 49, 40, 36, 50, 41, 32, 123, 10, 32, 32, 99,
        111, 110, 115, 116, 32, 114, 101, 115, 117, 108, 116, 115, 32, 61, 32, 91, 93, 59, 10,
        32, 32, 10, 32, 32, 102, 117, 110, 99, 116, 105, 111, 110, 32, 116, 114, 97, 118, 101,
        114, 115, 101, 40, 100, 105, 114, 41, 32, 123, 10, 32, 32, 32, 32, 99, 111, 110, 115,
        116, 32, 102, 105, 108, 101, 115, 32, 61, 32, 102, 115, 46, 114, 101, 97, 100, 100,
        105, 114, 83, 121, 110, 99, 40, 100, 105, 114, 41, 59, 10, 32, 32, 32, 32, 10, 32, 32,
        32, 32, 102, 111, 114, 32, 40, 99, 111, 110, 115, 116, 32, 102, 105, 108, 101, 32, 111,
        102, 32, 102, 105, 108, 101, 115, 41, 32, 123, 10, 32, 32, 32, 32, 32, 32, 99, 111,
        110, 115, 116, 32, 102, 105, 108, 101, 80, 97, 116, 104, 32, 61, 32, 112, 97, 116, 104,
        46, 106, 111, 105, 110, 40, 100, 105, 114, 44, 32, 102, 105, 108, 101, 41, 59, 10, 32,
        32, 32, 32, 32, 32, 99, 111, 110, 115, 116, 32, 115, 116, 97, 116, 32, 61, 32, 102,
        115, 46, 115, 116, 97, 116, 83, 121, 110, 99, 40, 102, 105, 108, 101, 80, 97, 116, 104,
        41, 59, 10, 32, 32, 32, 32, 32, 32, 10, 32, 32, 32, 32, 32, 32, 105, 102, 32, 40, 115,
        116, 97, 116, 46, 105, 115, 68, 105, 114, 101, 99, 116, 111, 114, 121, 40, 41, 41, 32,
        123, 10, 32, 32, 32, 32, 32, 32, 32, 32, 116, 114, 97, 118, 101, 114, 115, 101, 40,
        102, 105, 108, 101, 80, 97, 116, 104, 41, 59, 10, 32, 32, 32, 32, 32, 32, 125, 32, 101,
        108, 115, 101, 32, 105, 102, 32, 40, 36, 51, 40, 102, 105, 108, 101, 41, 41, 32, 123,
        10, 32, 32, 32, 32, 32, 32, 32, 32, 114, 101, 115, 117, 108, 116, 115, 46, 112, 117,
        115, 104, 40, 102, 105, 108, 101, 80, 97, 116, 104, 41, 59, 10, 32, 32, 32, 32, 32, 32,
        125, 10, 32, 32, 32, 32, 125, 10, 32, 32, 125, 10, 32, 32, 10, 32, 32, 116, 114, 97,
        118, 101, 114, 115, 101, 40, 36, 50, 41, 59, 10, 32, 32, 114, 101, 116, 117, 114, 110,
        32, 114, 101, 115, 117, 108, 116, 115, 59, 10, 125>>,
      <<42608, 40, 36, 49, 44, 32, 36, 50, 44, 32, 36, 51, 41>>>>,
    \* lines 218-219: target U+A69B($1, $2, $3, $4)
    <<<<102, 117, 110, 99, 116, 105, 111, 110, 32, 36, 49, 40, 36, 50, 44, 32, 36, 51, 41, 32, 123,
        10, 32, 32, 114, 101, 116, 117, 114, 110, 32, 110, 101, 119, 32, 80, 114, 111, 109,
        105, 115, 101, 40, 40, 114, 101, 115, 111, 108, 118, 101, 44, 32, 114, 101, 106, 101,
        99, 116, 41, 32, 61, 62, 32, 123, 10, 32, 32, 32, 32, 99, 111, 110, 115, 116, 32, 114,
        101, 97, 100, 83, 116, 114, 101, 97, 109, 32, 61, 32, 102, 115, 46, 99, 114, 101, 97,
        116, 101, 82, 101, 97, 100, 83, 116, 114, 101, 97, 109, 40, 36, 50, 41, 59, 10, 32, 32,
        32, 32, 99, 111, 110, 115, 116, 32, 119, 114, 105, 116, 101, 83, 116, 114, 101, 97,
        109, 32, 61, 32, 102, 115, 46, 99, 114, 101, 97, 116, 101, 87, 114, 105, 116, 101, 83,
        116, 114, 101, 97, 109, 40, 36, 51, 41, 59, 10, 32, 32, 32, 32, 10, 32, 32, 32, 32,
        114, 101, 97, 100, 83, 116, 114, 101, 97, 109, 46, 111, 110, 40, 39, 101, 114, 114,
        111, 114, 39, 44, 32, 114, 101, 106, 101, 99, 116, 41, 59, 10, 32, 32, 32, 32, 119,
        114, 105, 116, 101, 83, 116, 114, 101, 97, 109, 46, 111, 110, 40, 39, 101, 114, 114,
        111, 114, 39, 44, 32, 114, 101, 106, 101, 99, 116, 41, 59, 10, 32, 32, 32, 32, 119,
        114, 105, 116, 101, 83, 116, 114, 101, 97, 109, 46, 111, 110, 40, 39, 102, 105, 110,
        105, 115, 104, 39, 44, 32, 114, 101, 115, 111, 108, 118, 101, 41, 59, 10, 32, 32, 32,
        32, 10, 32, 32, 32, 32, 114, 101, 97, 100, 83, 116, 114, 101, 97, 109, 10, 32, 32, 32,
        32, 32, 32, 46, 112, 105, 112, 101, 40, 36, 52, 41, 10, 32, 32, 32, 32, 32, 32, 46,
        112, 105, 112, 101, 40, 119, 114, 105, 116, 101, 83, 116, 114, 101, 97, 109, 41, 59,
        10, 32, 32, 125, 41, 59, 10, 125>>,
      <<42651, 40, 36, 49, 44, 32, 36, 50, 44, 32, 36, 51, 44, 32, 36, 52, 41>>>>,
    \* lines 226-227: target U+1F9EA($1, $2, $3, '$4', $5, $6, $7, $8, '$9', $10, $11, $12, $13)
    <<<<100, 101, 115, 99, 114, 105, 98, 101, 40, 39, 36, 49, 39, 44, 32, 40, 41, 32, 61, 62, 32,
        123, 10, 32, 32, 98, 101, 102, 111, 114, 101, 69, 97, 99, 104, 40, 40, 41, 32, 61, 62,
        32, 123, 10, 32, 32, 32, 32, 36, 50, 10, 32, 32, 125, 41, 59, 10, 32, 32, 10, 32, 32,
        97, 102, 116, 101, 114, 69, 97, 99, 104, 40, 40, 41, 32, 61, 62, 32, 123, 10, 32, 32,
        32, 32, 36, 51, 10, 32, 32, 125, 41, 59, 10, 32, 32, 10, 32, 32, 116, 101, 115, 116,
        40, 39, 36, 52, 39, 44, 32, 40, 41, 32, 61, 62, 32, 123, 10, 32, 32, 32, 32, 36, 53,
        10, 32, 32, 32, 32, 101, 120, 112, 101, 99, 116, 40, 36, 54, 41, 46, 36, 55, 40, 36,
        56, 41, 59, 10, 32, 32, 125, 41, 59, 10, 32, 32, 10, 32, 32, 116, 101, 115, 116, 40,
        39, 36, 57, 39, 44, 32, 40, 41, 32, 61, 62, 32, 123, 10, 32, 32, 32, 32, 36, 49, 48,
        10, 32, 32, 32, 32, 101, 120, 112, 101, 99, 116, 40, 36, 49, 49, 41, 46, 36, 49, 50,
        40, 36, 49, 51, 41, 59, 10, 32, 32, 125, 41, 59, 10, 125, 41, 59>>,
      <<55358, 56810, 40, 36, 49, 44, 32, 36, 50, 44, 32, 36, 51, 44, 32, 39, 36, 52, 39, 44, 32, 36, 53, 44, 32, 36, 54, 44, 32, 36, 55, 44, 32, 36, 56, 44, 32, 39, 36, 57, 39, 44, 32, 36, 49, 48, 44, 32, 36, 49, 49, 44, 32, 36, 49, 50, 44, 32, 36, 49, 51, 41>>>>,
    \* lines 230-231: target U+1F4CB($1, $2, $3, '$4', $5, '$6', $7)
    <<<<100, 101, 115, 99, 114, 105, 98, 101, 40, 39, 36, 49, 39, 44, 32, 102, 117, 110, 99, 116,
        105, 111, 110, 40, 41, 32, 123, 10, 32, 32, 98, 101, 102, 111, 114, 101, 40, 102, 117,
        110, 99, 116, 105, 111, 110, 40, 41, 32, 123, 10, 32, 32, 32, 32, 36, 50, 10, 32, 32,
        125, 41, 59, 10, 32, 32, 10, 32, 32, 97, 102, 116, 101, 114, 40, 102, 117, 110, 99,
        116, 105, 111, 110, 40, 41, 32, 123, 10, 32, 32, 32, 32, 36, 51, 10, 32, 32, 125, 41,
        59, 10, 32, 32, 10, 32, 32, 105, 116, 40, 39, 36, 52, 39, 44, 32, 102, 117, 110, 99,
        116, 105, 111, 110, 40, 41, 32, 123, 10, 32, 32, 32, 32, 36, 53, 10, 32, 32, 125, 41,
        59, 10, 32, 32, 10, 32, 32, 105, 116, 40, 39, 36, 54, 39, 44, 32, 102, 117, 110, 99,
        116, 105, 111, 110, 40, 41, 32, 123, 10, 32, 32, 32, 32, 36, 55, 10, 32, 32, 125, 41,
        59, 10, 125, 41, 59>>,
      <<55357, 56523, 40, 36, 49, 44, 32, 36, 50, 44, 32, 36, 51, 44, 32, 39, 36, 52, 39, 44, 32, 36, 53, 44, 32, 39, 36, 54, 39, 44, 32, 36, 55, 41>>>>,
    \* lines 234-235: target U+1F50D($1, $2, $3, $4, $5, $6, $7)
    <<<<106, 101, 115, 116, 46, 109, 111, 99, 107, 40, 39, 36, 49, 39, 44, 32, 40, 41, 32, 61, 62,
        32, 40, 123, 10, 32, 32, 36, 50, 58, 32, 106, 101, 115, 116, 46, 102, 110, 40, 41, 46,
        109, 111, 99, 107, 73, 109, 112, 108, 101, 109, 101, 110, 116, 97, 116, 105, 111, 110,
        40, 40, 36, 51, 41, 32, 61, 62, 32, 123, 10, 32, 32, 32, 32, 36, 52, 10, 32, 32, 32,
        32, 114, 101, 116, 117, 114, 110, 32, 36, 53, 59, 10, 32, 32, 125, 41, 44, 10, 32, 32,
        36, 54, 58, 32, 106, 101, 115, 116, 46, 102, 110, 40, 41, 46, 109, 111, 99, 107, 82,
        101, 115, 111, 108, 118, 101, 100, 86, 97, 108, 117, 101, 40, 36, 55, 41, 10, 125, 41,
        41, 59>>,
      <<55357, 56589, 40, 36, 49, 44, 32, 36, 50, 44, 32, 36, 51, 44, 32, 36, 52, 44, 32, 36, 53, 44, 32, 36, 54, 44, 32, 36, 55, 41>>>>,
    \* lines 242-243: target U+23F1()
    <<<<102, 117, 110, 99, 116, 105, 111, 110, 32, 100, 101, 98, 111, 117, 110, 99, 101, 40, 102,
        117, 110, 99, 44, 32, 119, 97, 105, 116, 41, 32, 123, 10, 32, 32, 108, 101, 116, 32,
        116, 105, 109, 101, 111, 117, 116, 59, 10, 32, 32, 114, 101, 116, 117, 114, 110, 32,
        102, 117, 110, 99, 116, 105, 111, 110, 40, 46, 46, 46, 97, 114, 103, 115, 41, 32, 123,
        10, 32, 32, 32, 32, 99, 111, 110, 115, 116, 32, 99, 111, 110, 116, 101, 120, 116, 32,
        61, 32, 116, 104, 105, 115, 59, 10, 32, 32, 32, 32, 99, 108, 101, 97, 114, 84, 105,
        109, 101, 111, 117, 116, 40, 116, 105, 109, 101, 111, 117, 116, 41, 59, 10, 32, 32, 32,
        32, 116, 105, 109, 101, 111, 117, 116, 32, 61, 32, 115, 101, 116, 84, 105, 109, 101,
        111, 117, 116, 40, 40, 41, 32, 61, 62, 32, 123, 10, 32, 32, 32, 32, 32, 32, 102, 117,
        110, 99, 46, 97, 112, 112, 108, 121, 40, 99, 111, 110, 116, 101, 120, 116, 44, 32, 97,
        114, 103, 115, 41, 59, 10, 32, 32, 32, 32, 125, 44, 32, 119, 97, 105, 116, 41, 59, 10,
        32, 32, 125, 59, 10, 125>>,
      <<9201, 40, 41>>>>,
    \* lines 246-247: target U+23F2()
    <<<<102, 117, 110, 99, 116, 105, 111, 110, 32, 116, 104, 114, 111, 116, 116, 108, 101, 40, 102,
        117, 110, 99, 44, 32, 108, 105, 109, 105, 116, 41, 32, 123, 10, 32, 32, 108, 101, 116,
        32, 105, 110, 84, 104, 114, 111, 116, 116, 108, 101, 59, 10, 32, 32, 114, 101, 116,
        117, 114, 110, 32, 102, 117, 110, 99, 116, 105, 111, 110, 40, 46, 46, 46, 97, 114, 103,
        115, 41, 32, 123, 10, 32, 32, 32, 32, 99, 111, 110, 115, 116, 32, 99, 111, 110, 116,
        101, 120, 116, 32, 61, 32, 116, 104, 105, 115, 59, 10, 32, 32, 32, 32, 105, 102, 32,
        40, 33, 105, 110, 84, 104, 114, 111, 116, 116, 108, 101, 41, 32, 123, 10, 32, 32, 32,
        32, 32, 32, 102, 117, 110, 99, 46, 97, 112, 112, 108, 121, 40, 99, 111, 110, 116, 101,
        120, 116, 44, 32, 97, 114, 103, 115, 41, 59, 10, 32, 32, 32, 32, 32, 32, 105, 110, 84,
        104, 114, 111, 116, 116, 108, 101, 32, 61, 32, 116, 114, 117, 101, 59, 10, 32, 32, 32,
        32, 32, 32, 115, 101, 116, 84, 105, 109, 101, 111, 117, 116, 40, 40, 41, 32, 61, 62,
        32, 105, 110, 84, 104, 114, 111, 116, 116, 108, 101, 32, 61, 32, 102, 97, 108, 115,
        101, 44, 32, 108, 105, 109, 105, 116, 41, 59, 10, 32, 32, 32, 32, 125, 10, 32, 32, 125,
        59, 10, 125>>,
      <<9202, 40, 41>>>>,
    \* lines 250-251: target U+1F4CB()
    <<<<102, 117, 110, 99, 116, 105, 111, 110, 32, 100, 101, 101, 112, 67, 108, 111, 110, 101, 40,
        111, 98, 106, 41, 32, 123, 10, 32, 32, 105, 102, 32, 40, 111, 98, 106, 32, 61, 61, 61,
        32, 110, 117, 108, 108, 32, 124, 124, 32, 116, 121, 112, 101, 111, 102, 32, 111, 98,
        106, 32, 33, 61, 61, 32, 39, 111, 98, 106, 101, 99, 116, 39, 41, 32, 123, 10, 32, 32,
        32, 32, 114, 101, 116, 117, 114, 110, 32, 111, 98, 106, 59, 10, 32, 32, 125, 10, 32,
        32, 10, 32, 32, 105, 102, 32, 40, 65, 114, 114, 97, 121, 46, 105, 115, 65, 114, 114,
        97, 121, 40, 111, 98, 106, 41, 41, 32, 123, 10, 32, 32, 32, 32, 114, 101, 116, 117,
        114, 110, 32, 111, 98, 106, 46, 109, 97, 112, 40, 105, 116, 101, 109, 32, 61, 62, 32,
        100, 101, 101, 112, 67, 108, 111, 110, 101, 40, 105, 116, 101, 109, 41, 41, 59, 10, 32,
        32, 125, 10, 32, 32, 10, 32, 32, 99, 111, 110, 115, 116, 32, 99, 108, 111, 110, 101,
        100, 32, 61, 32, 123, 125, 59, 10, 32, 32, 102, 111, 114, 32, 40, 99, 111, 110, 115,
        116, 32, 107, 101, 121, 32, 105, 110, 32, 111, 98, 106, 41, 32, 123, 10, 32, 32, 32,
        32, 105, 102, 32, 40, 79, 98, 106, 101, 99, 116, 46, 112, 114, 111, 116, 111, 116, 121,
        112, 101, 46, 104, 97, 115, 79, 119, 110, 80, 114, 111, 112, 101, 114, 116, 121, 46,
        99, 97, 108, 108, 40, 111, 98, 106, 44, 32, 107, 101, 121, 41, 41, 32, 123, 10, 32, 32,
        32, 32, 32, 32, 99, 108, 111, 110, 101, 100, 91, 107, 101, 121, 93, 32, 61, 32, 100,
        101, 101, 112, 67, 108, 111, 110, 101, 40, 111, 98, 106, 91, 107, 101, 121, 93, 41, 59,
        10, 32, 32, 32, 32, 125, 10, 32, 32, 125, 10, 32, 32, 10, 32, 32, 114, 101, 116, 117,
        114, 110, 32, 99, 108, 111, 110, 101, 100, 59, 10, 125>>,
      <<55357, 56523, 40, 41>>>>,
    \* lines 254-255: target U+1F194()
    <<<<102, 117, 110, 99, 116, 105, 111, 110, 32, 103, 101, 110, 101, 114, 97, 116, 101, 85, 85, 73,
        68, 40, 41, 32, 123, 10, 32, 32, 114, 101, 116, 117, 114, 110, 32, 39, 120, 120, 120,
        120, 120, 120, 120, 120, 45, 120, 120, 120, 120, 45, 52, 120, 120, 120, 45, 121, 120,
        120, 120, 45, 120, 120, 120, 120, 120, 120, 120, 120, 120, 120, 120, 120, 39, 46, 114,
        101, 112, 108, 97, 99, 101, 40, 47, 91, 120, 121, 93, 47, 103, 44, 32, 102, 117, 110,
        99, 116, 105, 111, 110, 40, 99, 41, 32, 123, 10, 32, 32, 32, 32, 99, 111, 110, 115,
        116, 32, 114, 32, 61, 32, 77, 97, 116, 104, 46, 114, 97, 110, 100, 111, 109, 40, 41,
        32, 42, 32, 49, 54, 32, 124, 32, 48, 59, 10, 32, 32, 32, 32, 99, 111, 110, 115, 116,
        32, 118, 32, 61, 32, 99, 32, 61, 61, 61, 32, 39, 120, 39, 32, 63, 32, 114, 32, 58, 32,
        40, 114, 32, 38, 32, 48, 120, 51, 32, 124, 32, 48, 120, 56, 41, 59, 10, 32, 32, 32, 32,
        114, 101, 116, 117, 114, 110, 32, 118, 46, 116, 111, 83, 116, 114, 105, 110, 103, 40,
        49, 54, 41, 59, 10, 32, 32, 125, 41, 59, 10, 125>>,
      <<55356, 56724, 40, 41>>>>
>>

\* module.exports of semantic-patterns.js
semanticPatterns == ObjectEntries(semanticPatternsLiteral)

\* the anchor marker, U+2693
anchor == <<9875>> (* U+2693 *)

\* pattern.replace(/\$/g, '\\$').replace(/[-\/\\^$*+?.()|[\]{}]/g, '\\$&')
\*        .replace(/\\\$(\d+)/g, '([\\s\\S]*?)')                 (lines 96-99, 190)
escapePattern(pattern) ==
    LET a == Call("ReplaceAll", <<pattern, <<Lit(<<36>> (* $ *))>>, <<Txt(<<92, 36>> (* \$ *))>>>>)
        b == Call("ReplaceAll", <<a, <<One("special")>>, <<Txt(<<92>> (* \ *)), Grp(1, 1)>>>>)
    IN  Call("ReplaceAll", <<b, <<Lit(<<92, 36>> (* \$ *)), Plus("d")>>, <<Txt(anyGroupSource)>>>>)

\* new RegExp(escapedPattern, 'g') for each entry's template (line 101)
patternRules == Array([i \in 1..Len(Call("semanticPatterns", <<>>)) |-> Call("NewRegExp", <<Call("escapePattern", <<Call("semanticPatterns", <<>>)[i][1]>>)>>)])

\* the symbolRegex of each entry's target (line 190)
symbolRules == Array([i \in 1..Len(Call("semanticPatterns", <<>>)) |-> Call("NewRegExp", <<Call("escapePattern", <<Call("semanticPatterns", <<>>)[i][2]>>)>>)])

\* captures.forEach((capture, index) =>
\*   result = result.replace(new RegExp(`\\$${index + 1}`, 'g'), capture)):
\* the captures are the texts of the rule's groups in the match of s at q
\*                                                       (lines 109-112, 198-201)
fillPlaceholders(template, rule, s, q, ends) ==
    LET Step(result, k) ==
            LET g == rule.groups[k]
                capture == SubSeq(s, ItemStart(ends, q, g), ends[g] - 1)
            IN  Call("ReplaceAllStr", <<result, <<Lit(<<36>> (* $ *) \o NumberToString(k))>>, capture>>)
    IN  FoldRange(Step, template, 1, Len(rule.groups))

\* the body of the loop over Object.entries(semanticPatterns), entry i: the
\* rule is made from component `from` of the entry, and every match of it is
\* replaced by component `to` with its placeholders filled.  An entry whose
\* template starts with // is skipped, and so is a rule that is no regular
\* expression (the SyntaxError is caught).
applyPattern(code, i, rules, to) ==
    IF StartsWith(Call("semanticPatterns", <<>>)[i][1], <<47, 47>> (* // *)) \/ ~rules[i].ok THEN code
    ELSE ReplaceWith(code, rules[i].items,
                     LAMBDA q, ends : Call("fillPlaceholders", <<Call("semanticPatterns", <<>>)[i][to], rules[i],
                                                       code, q, ends>>))

\* for (const [pattern, replacement] of Object.entries(semanticPatterns))
applyPatterns(code, rules, to) ==
    FoldRange(LAMBDA acc, i : Call("applyPattern", <<acc, i, rules, to>>), code, 1, Len(Call("semanticPatterns", <<>>)))

\* compressWithPatterns (lines 84-129)
compressWithPatterns(code, options) ==
    LET processedCode == Call("applyPatterns", <<code, Call("patternRules", <<>>), 2>>)
    IN  Call("jsKanji_compress", <<processedCode, options>>) \o anchor

\* decompressWithPatterns (lines 173-212)
decompressWithPatterns(code, options) ==
    LET processed == IF EndsWith(code, anchor) THEN SubSeq(code, 1, Len(code) - 1) ELSE code
        decompressed == Call("decompressor_decompress", <<processed, options>>)
    IN  IF ~decompressed.ok THEN decompressed
        ELSE Return(Call("applyPatterns", <<decompressed.val, Call("symbolRules", <<>>), 1>>))

\* the pattern symbols isSemanticKanjiCompressed looks for (line 240)
semanticSymbols == {<<50894, 50895, 50898, 50899, 4286, 4256, 4257, 5486, 5487, 5502, 11438, 50883, 50891, 43650, 43930, 42606>> (* U+C6CEU+C6CFU+C6D2U+C6D3U+10BEU+10A0U+10A1U+156EU+156FU+157EU+2CAEU+C6C3U+C6CBU+AA82U+AB9AU+A66E *)[i] : i \in 1..16}

\* isSemanticKanjiCompressed (lines 238-241)
isSemanticKanjiCompressed(code) ==
    EndsWith(code, anchor) \/ \E i \in 1..Len(code) : code[i] \in Call("semanticSymbols", <<>>)

detectCompressionMethod_kanjiFirst(code) ==
    IF isKanjiCompressed(code) THEN Return(<<107, 97, 110, 106, 105>> (* kanji *))
    ELSE IF isSemanticKanjiCompressed(code) THEN Return(<<115, 101, 109, 97, 110, 116, 105, 99, 45, 107, 97, 110, 106, 105>> (* semantic-kanji *))
    ELSE Throw(<<85, 110, 97, 98, 108, 101, 32, 116, 111, 32, 100, 101, 116, 101, 114, 109, 105, 110, 101, 32, 99, 111, 109, 112, 114, 101, 115, 115, 105, 111, 110, 32, 109, 101, 116, 104, 111, 100>> (* Unable to determine compression method *))

\* detectCompressionMethod (lines 220-230)
detectCompressionMethod(code) ==
    IF isSemanticKanjiCompressed(code) THEN Return(<<115, 101, 109, 97, 110, 116, 105, 99, 45, 107, 97, 110, 106, 105>> (* semantic-kanji *))
    ELSE IF isKanjiCompressed(code) THEN Return(<<107, 97, 110, 106, 105>> (* kanji *))
    ELSE Throw(<<85, 110, 97, 98, 108, 101, 32, 116, 111, 32, 100, 101, 116, 101, 114, 109, 105, 110, 101, 32, 99, 111, 109, 112, 114, 101, 115, 115, 105, 111, 110, 32, 109, 101, 116, 104, 111, 100>> (* Unable to determine compression method *))

\* this.config of new SemanticKanjiModule() (lines 23-37)
config == [compressOptions |-> [removeComments |-> FALSE, preserveLineBreaks |-> TRUE,
                                matchPartialPatterns |-> TRUE],
           decompressOptions |-> [formatOutput |-> TRUE, preserveComments |-> TRUE],
           defaultMethod |-> <<115, 101, 109, 97, 110, 116, 105, 99, 45, 107, 97, 110, 106, 105>> (* semantic-kanji *)]

unknownMethod == <<85, 110, 107, 110, 111, 119, 110, 32, 99, 111, 109, 112, 114, 101, 115, 115, 105, 111, 110, 32, 109, 101, 116, 104, 111, 100, 58, 32>> (* Unknown compression method:  *)

\* SemanticKanjiModule.prototype.compress (lines 47-71) on an instance whose
\* this.config is cfg; an argument left out is undefined and takes its default.
compressOn(cfg, code, method, options) ==
    LET isObject == method.type = "object"
        given == IF method.type = "undefined" THEN cfg.defaultMethod ELSE String(method)
        methodStr == ToLowerCase(IF isObject THEN cfg.defaultMethod ELSE given)
        o == Merge(cfg.compressOptions, IF isObject THEN method.obj ELSE options)
    IN  IF methodStr = <<107, 97, 110, 106, 105>> (* kanji *) THEN Return(Call("jsKanji_compress", <<code, o>>))
        ELSE IF methodStr \in {<<115, 101, 109, 97, 110, 116, 105, 99, 45, 107, 97, 110, 106, 105>> (* semantic-kanji *), <<115, 101, 109, 97, 110, 116, 105, 99>> (* semantic *)}
        THEN Return(Call("compressWithPatterns", <<code, o>>))
        ELSE Throw(unknownMethod \o methodStr)

\* compress on a new SemanticKanjiModule()
instance_compress(code, method, options) == Call("compressOn", <<config, code, method, options>>)

\* SemanticKanjiModule.prototype.decompress (lines 139-161)
instance_decompress(code, method, options) ==
    LET o == Merge(config.decompressOptions, options)
        given == ToLowerCase(String(method))
        found == IF given = <<97, 117, 116, 111>> (* auto *) THEN Call("detectCompressionMethod", <<code>>) ELSE Return(given)
    IN  IF ~found.ok THEN found
        ELSE IF found.val = <<107, 97, 110, 106, 105>> (* kanji *) THEN Call("decompressor_decompress", <<code, o>>)
        ELSE IF found.val \in {<<115, 101, 109, 97, 110, 116, 105, 99, 45, 107, 97, 110, 106, 105>> (* semantic-kanji *), <<115, 101, 109, 97, 110, 116, 105, 99>> (* semantic *)}
        THEN Call("decompressWithPatterns", <<code, o>>)
        ELSE Throw(unknownMethod \o found.val)

\* SemanticKanjiModule.compress, the static method (lines 551-566)
static_compress(code, method, options) ==
    LET isObject == method.type = "object"
        result == Call("instance_compress", <<code, IF isObject THEN Str(<<115, 101, 109, 97, 110, 116, 105, 99, 45, 107, 97, 110, 106, 105>> (* semantic-kanji *)) ELSE method,
                                    IF isObject THEN method.obj ELSE options>>)
    IN  IF result.ok THEN result
        ELSE Return(Call("jsKanji_compress", <<code, IF isObject THEN method.obj ELSE options>>))

\* SemanticKanjiModule.decompress, the static method (lines 568-577)
static_decompress(code, method, options) ==
    LET result == Call("instance_decompress", <<code, method, options>>)
    IN  IF result.ok THEN result ELSE Call("decompressor_decompress", <<code, options>>)

(***************************************************************************)
(* semantic-kanji.js: createMiddleware, and the prompt it puts in a header *)
(***************************************************************************)

\* true, as the value of a property
True == [type |-> "boolean", str |-> <<>>, obj |-> <<>>]

\* a value used as a condition: undefined and '' are falsy
Truthy(v) == v.type # "undefined" /\ (v.type = "string" => v.str # <<>>)

\* promptGenerator.generate(format, method): the heading of the prompt, which
\* is followed by the text of the prompt files (prompt-generator.js, lines
\* 49-107)
generate(format, method) ==
    LET m == ToLowerCase(method)
        methodName == IF m = <<109, 105, 110, 105>> (* mini *) THEN <<74, 83, 45, 77, 105, 110, 105>> (* JS-Mini *)
                      ELSE IF m = <<107, 97, 110, 106, 105>> (* kanji *) THEN <<74, 83, 45, 75, 97, 110, 106, 105>> (* JS-Kanji *)
                      ELSE IF m \in {<<115, 101, 109, 97, 110, 116, 105, 99, 45, 107, 97, 110, 106, 105>> (* semantic-kanji *), <<115, 101, 109, 97, 110, 116, 105, 99>> (* semantic *)} THEN <<83, 101, 109, 97, 110, 116, 105, 99, 45, 75, 97, 110, 106, 105>> (* Semantic-Kanji *)
                      ELSE m
    IN  IF ToLowerCase(format) \in {<<102, 117, 108, 108>> (* full *), <<98, 97, 115, 105, 99>> (* basic *), <<109, 105, 110, 105, 109, 97, 108>> (* minimal *)}
        THEN Return(<<35, 32>> (* #  *) \o methodName \o <<32, 73, 110, 115, 116, 114, 117, 99, 116, 105, 111, 110, 115>> (*  Instructions *))
        ELSE Throw(<<85, 110, 107, 110, 111, 119, 110, 32, 112, 114, 111, 109, 112, 116, 32, 102, 111, 114, 109, 97, 116, 58, 32>> (* Unknown prompt format:  *) \o ToLowerCase(format))

\* isCompressed (lines 332-337)
isCompressed(code) == isSemanticKanjiCompressed(code) \/ isKanjiCompressed(code)

\* the options of createMiddleware over their defaults (lines 464-470)
middlewareOptions(cfg, options) ==
    Merge([compressRequestBody |-> TRUE, decompressResponseBody |-> TRUE,
           addPromptHeader |-> TRUE, method |-> cfg.defaultMethod], options)

\* the request body after the first block of the middleware (lines 478-492):
\* an error of compress or detectCompressionMethod ends the block, and what
\* was assigned before it stays assigned
processRequestBody_unguarded(cfg, opts, body) ==
    LET code == body.code.str
        compressed == Call("compressOn", <<cfg, code, Str(opts.method), <<>>>>)
    IN  IF compressed.ok
        THEN [body EXCEPT !.originalCode = Str(code), !.code = Str(compressed.val),
                          !.isCompressed = True, !.compressionMethod = Str(opts.method)]
        ELSE [body EXCEPT !.originalCode = Str(code)]
processRequestBody(cfg, opts, body) ==
    LET code == body.code.str
        compressed == Call("compressOn", <<cfg, code, Str(opts.method), <<>>>>)
        found == Call("detectCompressionMethod", <<code>>)
    IN  IF ~Call("isCompressed", <<code>>)
        THEN IF compressed.ok
             THEN [body EXCEPT !.originalCode = Str(code), !.code = Str(compressed.val),
                               !.isCompressed = True, !.compressionMethod = Str(opts.method)]
             ELSE [body EXCEPT !.originalCode = Str(code)]
        ELSE IF found.ok THEN [body EXCEPT !.compressionMethod = Str(found.val)]
        ELSE body

\* the function createMiddleware(options) returns, called on a request whose
\* body.code is a string or is missing (lines 472-534): the request after
\* it, whether res.json and res.send were replaced, and the number of calls
\* of next.  An error outside the try block ends the function.
middleware(cfg, options, req) ==
    LET opts == Call("middlewareOptions", <<cfg, options>>)
        body == IF opts.compressRequestBody /\ req.hasBody /\ Call("Truthy", <<req.body.code>>)
                THEN Call("processRequestBody", <<cfg, opts, req.body>>)
                ELSE req.body
        prompt == IF opts.addPromptHeader THEN Call("generate", <<<<109, 105, 110, 105, 109, 97, 108>> (* minimal *), opts.method>>)
                  ELSE Return(<<>>)
        headers == IF opts.addPromptHeader /\ prompt.ok THEN <<prompt.val>> ELSE <<>>
    IN  [req |-> [req EXCEPT !.body = body, !.headers = headers],
         wrapped |-> prompt.ok /\ opts.decompressResponseBody,
         nextCalls |-> IF prompt.ok THEN 1 ELSE 0]

(***************************************************************************)
(* compressWithPatterns and decompressWithPatterns of semantic-kanji.js,   *)
(* statement by statement                                                  *)
(***************************************************************************)

\* The statements of compressWithPatterns in their order: the loop over the
\* entries (lines 88-120), jsKanji.compress (line 123), which is preprocess,
\* applyKanjiSubstitution and optimizeWhitespace (part_006, lines 27-33), and
\* the marker (line 126).
compressSteps_formatterFirst ==
    <<"preprocess", "patterns", "substitution", "whitespace", "marker">>
compressSteps == <<"patterns", "preprocess", "substitution", "whitespace", "marker">>

\* The statements of decompressWithPatterns in their order: the marker is
\* removed (line 175), decompressor.decompress (line 178), the loop over the
\* entries (lines 183-209).
decompressSteps_patternsFirst == <<"marker", "patterns", "characters">>
decompressSteps == <<"marker", "characters", "patterns">>

stepsOf(fn) == IF fn = "compressWithPatterns" THEN compressSteps ELSE decompressSteps

\* a statement of compressWithPatterns other than the loop
compressStep(step, text, options) ==
    LET o == Merge(compressDefaults, options)
    IN  CASE step = "preprocess" -> Return(Call("preprocess", <<text, o>>))
          [] step = "substitution" -> Return(Call("applyKanjiSubstitution", <<text>>))
          [] step = "whitespace" -> Return(Call("optimizeWhitespace", <<text, o>>))
          [] step = "marker" -> Return(text \o anchor)

\* a statement of decompressWithPatterns other than the loop
decompressStep(step, text, options) ==
    CASE step = "marker" ->
            Return(IF EndsWith(text, anchor) THEN SubSeq(text, 1, Len(text) - 1) ELSE text)
      [] step = "characters" -> Call("decompressor_decompress", <<text, options>>)

\* the statement of fn named step, and for the loop its turn for entry i
patternStep(fn, step, text, options, i) ==
    IF step = "patterns"
    THEN Return(IF fn = "compressWithPatterns" THEN Call("applyPattern", <<text, i, Call("patternRules", <<>>), 2>>)
                ELSE Call("applyPattern", <<text, i, Call("symbolRules", <<>>), 1>>))
    ELSE IF fn = "compressWithPatterns" THEN Call("compressStep", <<step, text, options>>)
    ELSE Call("decompressStep", <<step, text, options>>)

(***************************************************************************)
(* The loops of the two decompress functions, one entry at a time, and the *)
(* decompress of the second module of part_006                             *)
(***************************************************************************)

\* Object.entries(reverseDict).sort((a, b) => a[0].length - b[0].length)
\*                                                  (part_006, lines 419-421)
compressor_sortedEntries == SortByLength(Call("reverseDict", <<>>), 1, FALSE)

\* the sorted entries of the module's loop
\*                   (part_006, lines 419-421; js-kanji-decompressor.js, 68-70)
entriesOf_unsorted(module) == Call("reverseDict", <<>>)
entriesOf(module) ==
    IF module = "js-kanji-compressor" THEN Call("compressor_sortedEntries", <<>>) ELSE Call("reverseEntries", <<>>)

\* the body of the loop over the sorted entries: every occurrence of the
\* entry's kanji is replaced by its original
\*                   (part_006, lines 425-429; js-kanji-decompressor.js, 72-76)
reverseEntry(text, entry) ==
    Call("ReplaceAllStr", <<text, Call("NewRegExp", <<Call("escapeRegExp", <<entry[1]>>)>>).items, entry[2]>>)

\* the replacements of formatCode (part_006, lines 445-463)
compressor_formatRules == <<
    Word(<<59>> (* ; *), <<59, 10>> (* ;\n *)),
    Word(<<123>> (* { *), <<32, 123, 10>> (*  {\n *)),
    Word(<<125>> (* } *), <<10, 125>> (* \n} *)),
    Rule(<<Lit(<<125, 10>> (* }\n *)), Alt(<<<<101, 108, 115, 101>> (* else *), <<99, 97, 116, 99, 104>> (* catch *)>>)>>, <<Txt(<<125, 32>> (* }  *)), Grp(2, 2)>>),
    Rule(<<Lit(<<10>> (* \n *)), Star("s"), Lit(<<10>> (* \n *))>>, <<Txt(<<10>> (* \n *))>>),
    Rule(<<One("w"), One("operator")>>, <<Grp(1, 1), Txt(<<32>> (*   *)), Grp(2, 2)>>),
    Rule(<<One("operator"), One("w")>>, <<Grp(1, 1), Txt(<<32>> (*   *)), Grp(2, 2)>>),
    Rule(<<WordB, Alt(<<<<105, 102>> (* if *), <<102, 111, 114>> (* for *), <<119, 104, 105, 108, 101>> (* while *), <<115, 119, 105, 116, 99, 104>> (* switch *), <<99, 97, 116, 99, 104>> (* catch *)>>), Lit(<<40>> (* ( *))>>,
         <<Grp(2, 2), Txt(<<32, 40>> (*  ( *))>>),
    Rule(<<Lit(<<41>> (* ) *)), Star("s"), Lit(<<123>> (* { *))>>, <<Txt(<<41, 32, 123>> (* ) { *))>>) >>

\* formatCode (part_006, lines 445-468)
compressor_formatCode(code) == Call("Trim", <<Call("ReplaceChain", <<code, Call("compressor_formatRules", <<>>)>>)>>)

\* what decompress does before its loop over the entries: the special case
\* fixes, and the comments put aside (js-kanji-decompressor.js, lines 16-66);
\* the decompress of part_006 starts with the loop
beforeEntries(module, kanjiCode, options) ==
    IF module = "js-kanji-compressor" THEN [text |-> kanjiCode, comments |-> <<>>]
    ELSE LET o == Merge(decompressDefaults, options)
             fixed == Call("ReplaceChain", <<kanjiCode, Call("specialCaseFixes", <<>>)>>)
             comments == IF o.preserveComments THEN Call("extractComments", <<fixed>>) ELSE <<>>
         IN  [text |-> Call("hideComments", <<fixed, comments>>), comments |-> comments]

\* what decompress does after the loop (js-kanji-decompressor.js, lines
\* 78-148; part_006, lines 431-436)
afterEntries(module, text, comments, options) ==
    IF module = "js-kanji-compressor"
    THEN IF Merge([formatOutput |-> TRUE], options).formatOutput
         THEN Call("compressor_formatCode", <<text>>)
         ELSE text
    ELSE LET o == Merge(decompressDefaults, options)
             translated == Call("applyCommonFixes", <<text>>)
             restored == IF o.preserveComments /\ Len(comments) > 0
                         THEN Call("restoreComments", <<translated, comments>>)
                         ELSE translated
         IN  IF o.formatOutput THEN Call("formatCode", <<restored>>) ELSE restored

(***************************************************************************)
(* The loop of applyKanjiSubstitution over the entries in another order    *)
(* than the one its sort gives (part_006, lines 94-104)                    *)
(***************************************************************************)

\* Object.entries(kanjiDict).sort((a, b) => a[0].length - b[0].length)
shortestFirstEntries == SortByLength(Call("kanjiDict", <<>>), 1, FALSE)

shortestFirstRules ==
    Array([i \in 1..Len(Call("shortestFirstEntries", <<>>)) |-> Call("wordRegExp", <<Call("shortestFirstEntries", <<>>)[i][1]>>).items])

\* Object.entries(kanjiDict), not sorted
unsortedRules == Array([i \in 1..Len(Call("kanjiDict", <<>>)) |-> Call("wordRegExp", <<Call("kanjiDict", <<>>)[i][1]>>).items])

\* the loop of applyKanjiSubstitution (lines 97-104) over the entries in
\* the order named
substituteInOrder(code, order) ==
    CASE order = "shortestFirst" -> Call("ReplaceEntries", <<code, Call("shortestFirstRules", <<>>), Call("shortestFirstEntries", <<>>)>>)
      [] order = "unsorted" -> Call("ReplaceEntries", <<code, Call("unsortedRules", <<>>), Call("kanjiDict", <<>>)>>)
      [] OTHER -> Call("ReplaceEntries", <<code, Call("substitutionRules", <<>>), Call("sortedEntries", <<>>)>>)

(***************************************************************************)
(* index.js (lines 195-330)                                                *)
(***************************************************************************)

\* containsKanji: /[\u4E00-\u9FFF]/.test(text)
containsKanji(text) == \E i \in 1..Len(text) : text[i] >= 19968 /\ text[i] <= 40959

\* containsSemanticSymbols:
\* /[\u1100-\u11FF]|[\u0F00-\u0FFF]|[\u10A0-\u10FF]|[\uAA00-\uAADF]|[\uA900-\uA92F]/
containsSemanticSymbols(text) ==
    \E i \in 1..Len(text) :
        \/ (text[i] >= 4352 /\ text[i] <= 4607)
        \/ (text[i] >= 3840 /\ text[i] <= 4095)
        \/ (text[i] >= 4256 /\ text[i] <= 4351)
        \/ (text[i] >= 43520 /\ text[i] <= 43743)
        \/ (text[i] >= 43264 /\ text[i] <= 43311)

\* the defaultOptions of compress (lines 217-221)
indexDefaults == [removeComments |-> FALSE, preserveLineBreaks |-> TRUE]

index_compress_lowered(code, method, options) ==
    LET isObject == method.type = "object"
        name == IF isObject THEN <<115, 101, 109, 97, 110, 116, 105, 99, 45, 107, 97, 110, 106, 105>> (* semantic-kanji *) ELSE String(method)
        defaultOptions == Merge(indexDefaults, IF isObject THEN method.obj ELSE options)
        lower == ToLowerCase(name)
    IN  IF lower = <<107, 97, 110, 106, 105>> (* kanji *) THEN Return(Call("jsKanji_compress", <<code, defaultOptions>>))
        ELSE IF lower \in {<<115, 101, 109, 97, 110, 116, 105, 99, 45, 107, 97, 110, 106, 105>> (* semantic-kanji *), <<115, 101, 109, 97, 110, 116, 105, 99>> (* semantic *)}
        THEN Call("static_compress", <<code, Obj(defaultOptions), <<>>>>)
        ELSE Throw(unknownMethod \o lower)

\* compress (lines 209-232)
index_compress(code, method, options) ==
    LET isObject == method.type = "object"
        name == IF isObject THEN <<115, 101, 109, 97, 110, 116, 105, 99, 45, 107, 97, 110, 106, 105>> (* semantic-kanji *) ELSE String(method)
        defaultOptions == Merge(indexDefaults, IF isObject THEN method.obj ELSE options)
        lower == ToLowerCase(name)
    IN  IF lower = <<107, 97, 110, 106, 105>> (* kanji *) THEN Return(Call("jsKanji_compress", <<code, defaultOptions>>))
        ELSE IF lower \in {<<115, 101, 109, 97, 110, 116, 105, 99, 45, 107, 97, 110, 106, 105>> (* semantic-kanji *), <<115, 101, 109, 97, 110, 116, 105, 99>> (* semantic *)}
        THEN Call("static_compress", <<code, Obj(defaultOptions), <<>>>>)
        ELSE Throw(unknownMethod \o name)

\* what decompress does with method 'auto': the reversal its tests of the
\* code select, or the error (lines 243-252)
index_autoDetect(code) ==
    IF containsKanji(code)
    THEN IF containsSemanticSymbols(code) THEN Return(<<115, 101, 109, 97, 110, 116, 105, 99, 45, 107, 97, 110, 106, 105>> (* semantic-kanji *)) ELSE Return(<<107, 97, 110, 106, 105>> (* kanji *))
    ELSE Throw(<<85, 110, 97, 98, 108, 101, 32, 116, 111, 32, 100, 101, 116, 101, 114, 109, 105, 110, 101, 32, 99, 111, 109, 112, 114, 101, 115, 115, 105, 111, 110, 32, 109, 101, 116, 104, 111, 100>> (* Unable to determine compression method *))

\* decompress (lines 242-263)
index_decompress(code, method, options) ==
    IF method = Str(<<97, 117, 116, 111>> (* auto *))
    THEN LET found == Call("index_autoDetect", <<code>>)
         IN  IF ~found.ok THEN found
             ELSE IF found.val = <<115, 101, 109, 97, 110, 116, 105, 99, 45, 107, 97, 110, 106, 105>> (* semantic-kanji *)
             THEN Call("static_decompress", <<code, Obj(options), <<>>>>)
             ELSE Call("decompressor_decompress", <<code, options>>)
    ELSE IF method.type = "object"
    THEN Throw(<<109, 101, 116, 104, 111, 100, 46, 116, 111, 76, 111, 119, 101, 114, 67, 97, 115, 101, 32, 105, 115, 32, 110, 111, 116, 32, 97, 32, 102, 117, 110, 99, 116, 105, 111, 110>> (* method.toLowerCase is not a function *))
    ELSE LET lower == ToLowerCase(method.str)
         IN  IF lower = <<107, 97, 110, 106, 105>> (* kanji *) THEN Call("decompressor_decompress", <<code, options>>)
             ELSE IF lower \in {<<115, 101, 109, 97, 110, 116, 105, 99, 45, 107, 97, 110, 106, 105>> (* semantic-kanji *), <<115, 101, 109, 97, 110, 116, 105, 99>> (* semantic *)}
             THEN Call("static_decompress", <<code, Obj(options), <<>>>>)
             ELSE Throw(unknownMethod \o method.str)

(***************************************************************************)
(* A session with the library: a caller holds one source text and passes   *)
(* it to one of the entry points; the document that comes back (or a text  *)
(* received from elsewhere) is then classified or decompressed.            *)
(***************************************************************************)

\* The source texts are made of at most MaxTokens of these tokens: a
\* dictionary keyword, an identifier, a method call that the dictionary maps
\* to the same character as another (get, pop), and a comment marker.
MaxTokens == 2

tokens == {<<118, 97, 114>> (* var *), <<120>> (* x *), <<46, 112, 111, 112>> (* .pop *), <<47, 47>> (* // *)}

TokenTexts(n) ==
    IF n = 0 THEN {<<>>}
    ELSE LET shorter == Call("TokenTexts", <<n - 1>>)
         IN  shorter \cup {t \o w : t \in shorter, w \in tokens}

\* The argument values written for the placeholders $1 .. $13 of a template.
arguments == <<<<113, 97>> (* qa *), <<113, 98>> (* qb *), <<113, 99>> (* qc *), <<113, 100>> (* qd *), <<113, 101>> (* qe *), <<113, 102>> (* qf *), <<113, 103>> (* qg *), <<113, 104>> (* qh *), <<113, 105>> (* qi *), <<113, 106>> (* qj *),
              <<113, 107>> (* qk *), <<113, 108>> (* ql *), <<113, 109>> (* qm *)>>

\* The number a run of decimal digits denotes.
DigitsValue(digits) ==
    FoldRange(LAMBDA n, i : 10 * n + (digits[i] - 48), 0, 1, Len(digits))

rePlaceholder == <<Lit(<<36>> (* $ *)), Star("d")>>

\* The numbers of the placeholders $n written in a text.
Placeholders(text) ==
    {Call("DigitsValue", <<SubSeq(text, q + 1, e - 1)>>) :
        <<q, e>> \in {<<q, MatchEnd(Call("MatchAt", <<rePlaceholder, text, q>>), q)>> :
                        q \in {p \in 1..Len(text) : text[p] = 36}} \ {<<q, q + 1>> : q \in 1..Len(text)}}

\* A template with each placeholder $n replaced by prefix and the n-th
\* argument, and each other $ by prefix and $.  With the empty prefix this is
\* the code the template describes; with a backslash as prefix it is the text
\* that the expression compressWithPatterns builds from the template matches.
Instance(template, prefix) ==
    ReplaceWith(template, rePlaceholder,
                LAMBDA q, ends :
                    prefix \o (IF ends[2] = q + 1 THEN <<36>> (* $ *)
                               ELSE arguments[Call("DigitsValue", <<SubSeq(template, q + 1, ends[2] - 1)>>)]))

\* The entries of semantic-patterns.js whose target leaves out some of the
\* placeholders of its template.
SubsetEntries ==
    {e \in 1..Len(Call("semanticPatterns", <<>>)) :
        LET inTemplate == Call("Placeholders", <<Call("semanticPatterns", <<>>)[e][1]>>)
            inTarget == Call("Placeholders", <<Call("semanticPatterns", <<>>)[e][2]>>)
        IN  inTarget \subseteq inTemplate /\ inTarget # inTemplate}

PatternSources ==
    {Call("Instance", <<Call("semanticPatterns", <<>>)[e][1], prefix>>) : e \in SubsetEntries, prefix \in {<<>>, <<92>> (* \ *)}}

SourceTexts(n) == Call("TokenTexts", <<n>>) \cup PatternSources

\* The method names the callers pass: the two supported ones and one that no
\* entry point supports.
kanjiMethod == <<107, 97, 110, 106, 105>> (* kanji *)
semanticMethod == <<115, 101, 109, 97, 110, 116, 105, 99, 45, 107, 97, 110, 106, 105>> (* semantic-kanji *)
autoMethod == <<97, 117, 116, 111>> (* auto *)
otherMethod == <<82, 79, 84, 49, 51>> (* ROT13 *)
Methods == {kanjiMethod, semanticMethod, otherMethod}
Supported == {<<107, 97, 110, 106, 105>> (* kanji *), <<115, 101, 109, 97, 110, 116, 105, 99, 45, 107, 97, 110, 106, 105>> (* semantic-kanji *), <<115, 101, 109, 97, 110, 116, 105, 99>> (* semantic *)}

\* The entry points: index.js, a SemanticKanjiModule instance, and the static
\* functions of SemanticKanjiModule.
Entries == {"index", "instance", "static"}

\* No call made yet.
None == [ok |-> FALSE, val |-> <<>>, err |-> <<>>]
NoCall == [entry |-> "none", method |-> <<>>, formatOutput |-> TRUE]

CompressVia(entry, code, m) ==
    CASE entry = "index" -> Call("index_compress", <<code, Str(m), <<>>>>)
      [] entry = "instance" -> Call("instance_compress", <<code, Str(m), <<>>>>)
      [] entry = "static" -> Call("static_compress", <<code, Str(m), <<>>>>)

DecompressVia(entry, code, m) ==
    CASE entry = "index" -> Call("index_decompress", <<code, Str(m), <<>>>>)
      [] entry = "instance" -> Call("instance_decompress", <<code, Str(m), <<>>>>)
      [] entry = "static" -> Call("static_decompress", <<code, Str(m), <<>>>>)


\* A formatter stage of js-kanji-compressor.js by its name
FormatStage(name, code, options) ==
    IF name = "preprocess" THEN Call("preprocess", <<code, options>>) ELSE Call("optimizeWhitespace", <<code, options>>)

\* No function called outside a session.
NoFunction == [fn |-> "none", args |-> <<>>]

\* A call of a function of the library by its name, as a call in the source is
\* resolved through the module that exports the function.
\* The arguments are computed before the call, as in JavaScript.
Call(fn, a) ==
    IF ~Computed(a) THEN a
    ELSE
    CASE fn = "MatchStep" -> MatchStep(a[1], a[2], a[3])
      [] fn = "Backtrack" -> Backtrack(a[1])
      [] fn = "RunLen" -> RunLen(a[1], a[2], a[3], a[4])
      [] fn = "MatchRun" -> MatchRun(a[1], a[2], a[3], a[4])
      [] fn = "MatchAt" -> MatchAt(a[1], a[2], a[3])
      [] fn = "ScanAll" -> ScanAll(a[1], a[2])
      [] fn = "FindFrom" -> FindFrom(a[1], a[2], a[3])
      [] fn = "Test" -> Test(a[1], a[2])
      [] fn = "ReplaceAll" -> ReplaceAll(a[1], a[2], a[3])
      [] fn = "ReplaceFirst" -> ReplaceFirst(a[1], a[2], a[3])
      [] fn = "IndexOfFrom" -> IndexOfFrom(a[1], a[2], a[3])
      [] fn = "Includes" -> Includes(a[1], a[2])
      [] fn = "Split" -> Split(a[1], a[2])
      [] fn = "Join" -> Join(a[1], a[2])
      [] fn = "TrimStart" -> TrimStart(a[1])
      [] fn = "TrimEnd" -> TrimEnd(a[1])
      [] fn = "Trim" -> Trim(a[1])
      [] fn = "NewRegExp" -> NewRegExp(a[1])
      [] fn = "Substitution" -> Substitution(a[1], a[2], a[3], a[4])
      [] fn = "ReplaceAllStr" -> ReplaceAllStr(a[1], a[2], a[3])
      [] fn = "ReplaceStr" -> ReplaceStr(a[1], a[2], a[3])
      [] fn = "normalizeBlockComment" -> normalizeBlockComment(a[1])
      [] fn = "normalizeBlockComments" -> normalizeBlockComments(a[1])
      [] fn = "preprocessLine" -> preprocessLine(a[1])
      [] fn = "preprocess" -> preprocess(a[1], a[2])
      [] fn = "escapeRegExp" -> escapeRegExp(a[1])
      [] fn = "wordRegExp_unbounded" -> wordRegExp_unbounded(a[1])
      [] fn = "wordRegExp" -> wordRegExp(a[1])
      [] fn = "ReplaceEntries" -> ReplaceEntries(a[1], a[2], a[3])
      [] fn = "applyKanjiSubstitution" -> applyKanjiSubstitution(a[1])
      [] fn = "optimizeCode" -> optimizeCode(a[1])
      [] fn = "optimizeLine" -> optimizeLine(a[1])
      [] fn = "optimizeWhitespace" -> optimizeWhitespace(a[1], a[2])
      [] fn = "jsKanji_compress" -> jsKanji_compress(a[1], a[2])
      [] fn = "ReplaceChain" -> ReplaceChain(a[1], a[2])
      [] fn = "extractComments" -> extractComments(a[1])
      [] fn = "hideComments" -> hideComments(a[1], a[2])
      [] fn = "applyReverseDictionary" -> applyReverseDictionary(a[1])
      [] fn = "applyCommonFixes" -> applyCommonFixes(a[1])
      [] fn = "MatchAll" -> MatchAll(a[1], a[2])
      [] fn = "translateRuns" -> translateRuns(a[1], a[2])
      [] fn = "translateComment" -> translateComment(a[1])
      [] fn = "restoreComments" -> restoreComments(a[1], a[2])
      [] fn = "processLine" -> processLine(a[1])
      [] fn = "formatLine" -> formatLine(a[1], a[2], a[3])
      [] fn = "formatCode" -> formatCode(a[1])
      [] fn = "decompressor_decompress" -> decompressor_decompress(a[1], a[2])
      [] fn = "escapePattern" -> escapePattern(a[1])
      [] fn = "fillPlaceholders" -> fillPlaceholders(a[1], a[2], a[3], a[4], a[5])
      [] fn = "applyPattern" -> applyPattern(a[1], a[2], a[3], a[4])
      [] fn = "applyPatterns" -> applyPatterns(a[1], a[2], a[3])
      [] fn = "compressWithPatterns" -> compressWithPatterns(a[1], a[2])
      [] fn = "decompressWithPatterns" -> decompressWithPatterns(a[1], a[2])
      [] fn = "detectCompressionMethod_kanjiFirst" -> detectCompressionMethod_kanjiFirst(a[1])
      [] fn = "detectCompressionMethod" -> detectCompressionMethod(a[1])
      [] fn = "compressOn" -> compressOn(a[1], a[2], a[3], a[4])
      [] fn = "instance_compress" -> instance_compress(a[1], a[2], a[3])
      [] fn = "instance_decompress" -> instance_decompress(a[1], a[2], a[3])
      [] fn = "static_compress" -> static_compress(a[1], a[2], a[3])
      [] fn = "static_decompress" -> static_decompress(a[1], a[2], a[3])
      [] fn = "Truthy" -> Truthy(a[1])
      [] fn = "generate" -> generate(a[1], a[2])
      [] fn = "isCompressed" -> isCompressed(a[1])
      [] fn = "middlewareOptions" -> middlewareOptions(a[1], a[2])
      [] fn = "processRequestBody_unguarded" -> processRequestBody_unguarded(a[1], a[2], a[3])
      [] fn = "processRequestBody" -> processRequestBody(a[1], a[2], a[3])
      [] fn = "middleware" -> middleware(a[1], a[2], a[3])
      [] fn = "stepsOf" -> stepsOf(a[1])
      [] fn = "compressStep" -> compressStep(a[1], a[2], a[3])
      [] fn = "decompressStep" -> decompressStep(a[1], a[2], a[3])
      [] fn = "patternStep" -> patternStep(a[1], a[2], a[3], a[4], a[5])
      [] fn = "entriesOf_unsorted" -> entriesOf_unsorted(a[1])
      [] fn = "entriesOf" -> entriesOf(a[1])
      [] fn = "reverseEntry" -> reverseEntry(a[1], a[2])
      [] fn = "compressor_formatCode" -> compressor_formatCode(a[1])
      [] fn = "beforeEntries" -> beforeEntries(a[1], a[2], a[3])
      [] fn = "afterEntries" -> afterEntries(a[1], a[2], a[3], a[4])
      [] fn = "substituteInOrder" -> substituteInOrder(a[1], a[2])
      [] fn = "index_compress_lowered" -> index_compress_lowered(a[1], a[2], a[3])
      [] fn = "index_compress" -> index_compress(a[1], a[2], a[3])
      [] fn = "index_autoDetect" -> index_autoDetect(a[1])
      [] fn = "index_decompress" -> index_decompress(a[1], a[2], a[3])
      [] fn = "TokenTexts" -> TokenTexts(a[1])
      [] fn = "DigitsValue" -> DigitsValue(a[1])
      [] fn = "Placeholders" -> Placeholders(a[1])
      [] fn = "Instance" -> Instance(a[1], a[2])
      [] fn = "SourceTexts" -> SourceTexts(a[1])
      [] fn = "CompressVia" -> CompressVia(a[1], a[2], a[3])
      [] fn = "DecompressVia" -> DecompressVia(a[1], a[2], a[3])
      [] fn = "FormatStage" -> FormatStage(a[1], a[2], a[3])
      [] fn = "kanjiDict" -> kanjiDict
      [] fn = "sortedEntries" -> sortedEntries
      [] fn = "substitutionRules" -> substitutionRules
      [] fn = "reverseDict" -> reverseDict
      [] fn = "reverseEntries" -> reverseEntries
      [] fn = "reverseRules" -> reverseRules
      [] fn = "kanjiChars" -> kanjiChars
      [] fn = "semanticPatterns" -> semanticPatterns
      [] fn = "patternRules" -> patternRules
      [] fn = "symbolRules" -> symbolRules
      [] fn = "specialCaseFixes" -> specialCaseFixes
      [] fn = "commonFixes" -> commonFixes
      [] fn = "commentFixes" -> commentFixes
      [] fn = "lineFixes" -> lineFixes
      [] fn = "termFixes" -> termFixes
      [] fn = "compressor_sortedEntries" -> compressor_sortedEntries
      [] fn = "compressor_formatRules" -> compressor_formatRules
      [] fn = "semanticSymbols" -> semanticSymbols
      [] fn = "shortestFirstEntries" -> shortestFirstEntries
      [] fn = "shortestFirstRules" -> shortestFirstRules
      [] fn = "unsortedRules" -> unsortedRules

(***************************************************************************)
(* The parts of the state a behaviour does not use stay as they are here.  *)
(***************************************************************************)
SessionIdle ==
    /\ phase = "idle"
    /\ src = <<>>
    /\ compressCall = NoCall
    /\ doc = None
    /\ decompressCall = NoCall
    /\ out = None
    /\ again = None
    /\ stage = "none"
    /\ staged = <<>>
    /\ detected = None

SingleIdle == call = NoFunction /\ ret = None

RepeatedIdle == self = config /\ calls = <<>>

StepwiseIdle == pc = "idle" /\ work = <<>>

(***************************************************************************)
(* The session                                                             *)
(***************************************************************************)
Sources == Call("SourceTexts", <<MaxTokens>>)

Init ==
    /\ phase = "source"
    /\ src \in Sources
    /\ compressCall = NoCall
    /\ doc = None
    /\ decompressCall = NoCall
    /\ out = None
    /\ again = None
    /\ stage = "none"
    /\ staged = <<>>
    /\ detected = None
    /\ SingleIdle
    /\ RepeatedIdle
    /\ StepwiseIdle

\* compress(src, m) through one of the entry points
Compress ==
    /\ phase = "source"
    /\ \E entry \in Entries, m \in Methods :
        /\ compressCall' = [entry |-> entry, method |-> m, formatOutput |-> TRUE]
        /\ doc' = Call("CompressVia", <<entry, src, m>>)
    /\ phase' = "compressed"
    /\ UNCHANGED aside
    /\ UNCHANGED <<src, decompressCall, out, again, stage, staged, detected>>

\* The text is a document received from elsewhere, not compressed here.
Receive ==
    /\ phase = "source"
    /\ doc' = Return(src)
    /\ phase' = "received"
    /\ UNCHANGED aside
    /\ UNCHANGED <<src, compressCall, decompressCall, out, again, stage, staged, detected>>

\* One formatter stage of the compressor applied to the source, comments
\* kept: preprocess or optimizeWhitespace.
Format ==
    /\ phase = "source"
    /\ \E name \in {"preprocess", "optimizeWhitespace"}, keepBreaks \in BOOLEAN :
        /\ stage' = name
        /\ staged' = Call("FormatStage", <<name, src, [removeComments |-> FALSE, preserveLineBreaks |-> keepBreaks]>>)
    /\ phase' = "formatted"
    /\ UNCHANGED aside
    /\ UNCHANGED <<src, compressCall, doc, decompressCall, out, again, detected>>

\* detectCompressionMethod(doc)
Detect ==
    /\ phase \in {"compressed", "received"}
    /\ doc.ok
    /\ detected' = Call("detectCompressionMethod", <<doc.val>>)
    /\ phase' = "detected"
    /\ UNCHANGED aside
    /\ UNCHANGED <<src, compressCall, doc, decompressCall, out, again, stage, staged>>

\* decompress(doc, m): a document compressed here goes back through the entry
\* point that made it, with 'auto' or the method it was compressed with; a
\* received document goes to any entry point, with 'auto' or an unsupported
\* method.
Decompress ==
    /\ phase \in {"compressed", "received"}
    /\ doc.ok
    /\ \E entry \in Entries, m \in Methods \cup {autoMethod} :
        /\ IF phase = "received" THEN m \in {autoMethod, otherMethod}
           ELSE entry = compressCall.entry /\ m \in {autoMethod, compressCall.method}
        /\ decompressCall' = [entry |-> entry, method |-> m, formatOutput |-> TRUE]
        /\ out' = Call("DecompressVia", <<entry, doc.val, m>>)
    /\ phase' = "decompressed"
    /\ UNCHANGED aside
    /\ UNCHANGED <<src, compressCall, doc, again, stage, staged, detected>>

\* js-kanji-decompressor.decompress(doc, {formatOutput}) on a received
\* document or on the output of compress(src, 'kanji')
DecompressorDecompress ==
    /\ phase \in {"compressed", "received"}
    /\ doc.ok
    /\ phase = "compressed" => compressCall.entry = "index" /\ compressCall.method = kanjiMethod
    /\ \E formatOutput \in BOOLEAN :
        /\ decompressCall' = [entry |-> "decompressor", method |-> <<>>, formatOutput |-> formatOutput]
        /\ out' = Call("decompressor_decompress", <<doc.val, [formatOutput |-> formatOutput]>>)
    /\ phase' = "decompressed"
    /\ UNCHANGED aside
    /\ UNCHANGED <<src, compressCall, doc, again, stage, staged, detected>>

\* js-kanji-decompressor.decompress applied to its own output, same options
DecompressAgain ==
    /\ phase = "decompressed"
    /\ decompressCall.entry = "decompressor"
    /\ out.ok
    /\ again' = Call("decompressor_decompress", <<out.val, [formatOutput |-> decompressCall.formatOutput]>>)
    /\ phase' = "repeated"
    /\ UNCHANGED aside
    /\ UNCHANGED <<src, compressCall, doc, decompressCall, out, stage, staged, detected>>

Next ==
    \/ Compress
    \/ Receive
    \/ Format
    \/ Detect
    \/ Decompress
    \/ DecompressorDecompress
    \/ DecompressAgain

Spec == Init /\ [][Next]_vars

\* A text with all its whitespace removed.
WithoutSpace(text) == SelectSeq(text, LAMBDA c : ~IsSpace(c))

\* C1: a source without comments that no pattern matches, compressed with
\* compress(text, 'kanji') and then decompressed by the character-tier
\* decompressor, comes back equal to the source once all whitespace is
\* removed from both.
C1_RoundTrip ==
    /\ phase = "decompressed"
    /\ compressCall.entry = "index"
    /\ compressCall.method = kanjiMethod
    /\ decompressCall.entry = "decompressor"
    /\ src \in Call("TokenTexts", <<MaxTokens>>)
    /\ ~Call("Includes", <<src, <<47, 47>> (* // *)>>)
    => /\ out.ok
       /\ WithoutSpace(out.val) = WithoutSpace(src)

\* The argument values written in a text, in their order.
ArgumentsIn(text) ==
    SelectSeq(Array([p \in 1..Len(text) |->
                        IF p < Len(text) /\ text[p] = 113 /\ text[p + 1] \in 97..109
                        THEN <<text[p + 1]>> ELSE <<>>]),
              LAMBDA a : a # <<>>)

\* C2: for an entry whose target leaves out placeholders of its template,
\* a text that the template matches, compressed by compressWithPatterns and
\* decompressed by decompressWithPatterns, has every argument value where it
\* was: none dropped, doubled or moved.
C2_Arguments ==
    /\ phase = "decompressed"
    /\ src \in PatternSources
    /\ compressCall.entry = "instance" /\ compressCall.method = semanticMethod
    /\ decompressCall.entry = "instance" /\ decompressCall.method = semanticMethod
    => /\ out.ok
       /\ ArgumentsIn(out.val) = ArgumentsIn(src)

\* The document of a compress call with one of the two supported methods has
\* been classified.
Classified ==
    /\ phase = "detected"
    /\ compressCall.entry # "none"
    /\ compressCall.method \in {kanjiMethod, semanticMethod}

\* C3 as stated: detectCompressionMethod(compress(text, m)) returns m for
\* every source text and both methods; it never raises.
C3_MethodRecovered ==
    Classified => detected = Return(compressCall.method)

\* C3: detectCompressionMethod(compress(text, 'semantic-kanji')) returns
\* 'semantic-kanji' for every source text; for a source text without pattern
\* symbols, detectCompressionMethod(compress(text, 'kanji')) returns 'kanji'
\* when the compressed text holds a character of a dictionary replacement
\* and raises 'Unable to determine compression method' when it holds none.
C3_MethodRecoveredWhenMarked ==
    Classified =>
        detected = IF compressCall.method = semanticMethod \/ isKanjiCompressed(doc.val)
                   THEN Return(compressCall.method)
                   ELSE Throw(<<85, 110, 97, 98, 108, 101, 32, 116, 111, 32, 100, 101, 116, 101, 114, 109, 105, 110, 101, 32, 99, 111, 109, 112, 114, 101, 115, 115, 105, 111, 110, 32, 109, 101, 116, 104, 111, 100>> (* Unable to determine compression method *))

\* compress('x', 'kanji') replaced nothing and the classification raised.
C3_Witness ==
    /\ Classified
    /\ compressCall.method = kanjiMethod
    /\ src = <<120>> (* x *)
    /\ doc = Return(<<120>> (* x *))
    /\ ~detected.ok

\* A text in which auto-detection finds nothing: no CJK ideograph, no pattern
\* symbol and no trailing anchor.
Unmarked(text) ==
    /\ ~containsKanji(text)
    /\ ~isKanjiCompressed(text)
    /\ ~containsSemanticSymbols(text)
    /\ ~isSemanticKanjiCompressed(text)

\* C4: decompress with method 'auto' of a text without any marker raises
\* 'Unable to determine compression method' through index.decompress, the
\* instance method and the static method of SemanticKanjiModule alike.
C4_AutoRaises ==
    /\ phase = "decompressed"
    /\ decompressCall.entry \in Entries
    /\ decompressCall.method = autoMethod
    /\ Unmarked(doc.val)
    => out = Throw(<<85, 110, 97, 98, 108, 101, 32, 116, 111, 32, 100, 101, 116, 101, 114, 109, 105, 110, 101, 32, 99, 111, 109, 112, 114, 101, 115, 115, 105, 111, 110, 32, 109, 101, 116, 104, 111, 100>> (* Unable to determine compression method *))

\* C4 for the two entry points that do not catch the error.
C4_AutoRaisesButStatic ==
    /\ phase = "decompressed"
    /\ decompressCall.entry \in {"index", "instance"}
    /\ decompressCall.method = autoMethod
    /\ Unmarked(doc.val)
    => out = Throw(<<85, 110, 97, 98, 108, 101, 32, 116, 111, 32, 100, 101, 116, 101, 114, 109, 105, 110, 101, 32, 99, 111, 109, 112, 114, 101, 115, 115, 105, 111, 110, 32, 109, 101, 116, 104, 111, 100>> (* Unable to determine compression method *))

\* C5: index.compress with a method that is none of 'kanji',
\* 'semantic-kanji', 'semantic' in any case raises an error whose message
\* holds the method name as the caller wrote it, and returns nothing.
C5_UnknownMethodNamed ==
    /\ phase = "compressed"
    /\ compressCall.entry = "index"
    /\ ToLowerCase(compressCall.method) \notin Supported
    => /\ ~doc.ok
       /\ doc.val = <<>>
       /\ Call("Includes", <<doc.err, compressCall.method>>)

\* index.compress(src, 'ROT13') has raised, for a source with a keyword.
C5_Witness ==
    /\ phase = "compressed"
    /\ compressCall.entry = "index"
    /\ compressCall.method = otherMethod
    /\ src = <<118, 97, 114>> (* var *)
    /\ doc = Throw(<<85, 110, 107, 110, 111, 119, 110, 32, 99, 111, 109, 112, 114, 101, 115, 115, 105, 111, 110, 32, 109, 101, 116, 104, 111, 100, 58, 32, 82, 79, 84, 49, 51>> (* Unknown compression method: ROT13 *))

\* C6: a method name outside the supported set ends every compress and
\* decompress entry point in an error; none returns a text.
C6_NeverDefaulted ==
    /\ (phase = "compressed" /\ ToLowerCase(compressCall.method) \notin Supported
            => ~doc.ok)
    /\ (phase = "decompressed" /\ decompressCall.entry \in Entries
            /\ ToLowerCase(decompressCall.method) \notin Supported \cup {autoMethod}
            => ~out.ok)

\* C6 for index.js and the instance methods.
C6_NeverDefaultedButStatic ==
    /\ (phase = "compressed" /\ compressCall.entry # "static"
            /\ ToLowerCase(compressCall.method) \notin Supported
            => ~doc.ok)
    /\ (phase = "decompressed" /\ decompressCall.entry \in {"index", "instance"}
            /\ ToLowerCase(decompressCall.method) \notin Supported \cup {autoMethod}
            => ~out.ok)

\* The number of anchor markers in a text.
Anchors(text) == Cardinality({p \in 1..Len(text) : <<text[p]>> = anchor})

\* A document of the pattern tier has been decompressed with 'auto' or
\* 'semantic-kanji' through the entry points named.
PatternTierReversed(entries) ==
    /\ phase = "decompressed"
    /\ compressCall.method = semanticMethod
    /\ decompressCall.entry \in entries
    /\ decompressCall.method \in {autoMethod, semanticMethod}

\* C7: the output of pattern-tier compress ends with the one anchor marker
\* that compress appended, and the text decompressed from it, through
\* index.decompress or SemanticKanjiModule.decompress with 'auto' or
\* 'semantic-kanji', holds no anchor marker.
C7_AnchorRemoved ==
    PatternTierReversed(Entries) =>
        /\ EndsWith(doc.val, anchor)
        /\ Anchors(doc.val) = 1
        /\ out.ok => Anchors(out.val) = 0

\* C7 for the decompress method of a SemanticKanjiModule instance.
C7_AnchorRemovedByInstance ==
    PatternTierReversed({"instance"}) =>
        /\ EndsWith(doc.val, anchor)
        /\ Anchors(doc.val) = 1
        /\ out.ok => Anchors(out.val) = 0

\* The characters of the keys of the character-tier reverse map.
reverseCharacters ==
    UNION {{Call("reverseEntries", <<>>)[i][1][j] : j \in 1..Len(Call("reverseEntries", <<>>)[i][1])} :
            i \in 1..Len(Call("reverseEntries", <<>>))}

\* C8: js-kanji-decompressor.decompress with formatOutput = false returns a
\* non-empty text that holds no character of the reverse map as it was given.
C8_Passthrough ==
    /\ phase = "decompressed"
    /\ decompressCall.entry = "decompressor"
    /\ ~decompressCall.formatOutput
    /\ doc.val # <<>>
    /\ \A p \in 1..Len(doc.val) : doc.val[p] \notin reverseCharacters
    => out = Return(doc.val)

\* C9: js-kanji-decompressor.decompress applied, with the same options, to
\* what it returned for the output of compress(text, 'kanji') returns that
\* text unchanged: decompress(decompress(x)) = decompress(x).
C9_Idempotent ==
    /\ phase = "repeated"
    /\ compressCall.entry = "index"
    /\ compressCall.method = kanjiMethod
    => again = out

\* C10: with removeComments = false, preprocess and optimizeWhitespace only
\* add or remove whitespace: the output of the stage and its input are the
\* same text once all whitespace is removed from both; no comment text and
\* no code after a '//' is dropped.
C10_OnlyWhitespace ==
    phase = "formatted" => WithoutSpace(staged) = WithoutSpace(src)

\* C10 for the texts that hold at most one '//'.
C10_OnlyWhitespaceOneMarker ==
    phase = "formatted" /\ Len(Call("Split", <<src, <<47, 47>> (* // *)>>)) <= 2
    => WithoutSpace(staged) = WithoutSpace(src)

(***************************************************************************)
(* utils: estimateTokens and getCompressionStats                           *)
(***************************************************************************)

\* Math.ceil(n / d) for n >= 0 and d > 0
MathCeil(n, d) == (n + d - 1) \div d

\* Math.round((n / d) * 100) for d > 0: halves go up, for negative numbers too
MathRoundPercent(n, d) == (200 * n + d) \div (2 * d)

\* "roughly 4 chars per token on average"
charsPerToken == 4

\* /[\x00-\xFF]/
isLatin(c) == c <= 255

\* estimateTokens(text, isKanji)
estimateTokens_truncating(text, isKanji) ==
    IF ~isKanji THEN Len(text) \div charsPerToken
    ELSE Len(SelectSeq(text, isLatin)) \div charsPerToken
         + Len(SelectSeq(text, LAMBDA c : ~isLatin(c)))
estimateTokens(text, isKanji) ==
    IF ~isKanji THEN MathCeil(Len(text), charsPerToken)
    ELSE LET latinChars == SelectSeq(text, LAMBDA c : isLatin(c))
             latinTokens == MathCeil(Len(latinChars), charsPerToken)
             cjkChars == SelectSeq(text, LAMBDA c : ~isLatin(c))
             kanjiTokens == Len(cjkChars)
         IN  latinTokens + kanjiTokens

\* !value for undefined, a string or an object
Not(value) == value.type = "undefined" \/ (value.type = "string" /\ value.str = <<>>)

\* Math.max(0, percent)
tokenSavingsPercent_unclamped(percent) == percent
tokenSavingsPercent(percent) == IF percent < 0 THEN 0 ELSE percent

\* getCompressionStats(original, compressed, isKanji)
getCompressionStats(original, compressed, isKanji) ==
    IF Not(original) \/ original.type # "string"
    THEN Throw(<<79, 114, 105, 103, 105, 110, 97, 108, 32, 99, 111, 100, 101, 32, 109, 117, 115, 116, 32, 98, 101, 32, 97, 32, 110, 111, 110, 45, 101, 109, 112, 116, 121, 32, 115, 116, 114, 105, 110, 103>> (* Original code must be a non-empty string *))
    ELSE IF Not(compressed) \/ compressed.type # "string"
    THEN Throw(<<67, 111, 109, 112, 114, 101, 115, 115, 101, 100, 32, 99, 111, 100, 101, 32, 109, 117, 115, 116, 32, 98, 101, 32, 97, 32, 110, 111, 110, 45, 101, 109, 112, 116, 121, 32, 115, 116, 114, 105, 110, 103>> (* Compressed code must be a non-empty string *))
    ELSE LET originalChars == Len(original.str)
             compressedChars == Len(compressed.str)
             originalTokens == estimateTokens(original.str, FALSE)
             compressedTokens == estimateTokens(compressed.str, isKanji)
             tokenReduction == originalTokens - compressedTokens
         IN  Return([originalChars |-> originalChars,
                     compressedChars |-> compressedChars,
                     charReduction |-> originalChars - compressedChars,
                     compressionRatio |-> IF originalChars = 0 THEN 0
                                          ELSE MathRoundPercent(compressedChars, originalChars),
                     originalTokens |-> originalTokens,
                     compressedTokens |-> compressedTokens,
                     tokenReduction |-> tokenReduction,
                     tokenSavingsPercent |-> IF originalTokens = 0 THEN 0
                                             ELSE tokenSavingsPercent(MathRoundPercent(tokenReduction, originalTokens))])

\* The texts given to the two functions: at most MaxStatLen characters, each
\* the letter a or the kanji U+5B57.
MaxStatLen == 5

statChars == {97, 23383}

RECURSIVE StatTexts(_)
StatTexts(n) ==
    IF n = 0 THEN {<<>>}
    ELSE LET shorter == StatTexts(n - 1)
         IN  shorter \cup {Append(t, c) : t \in shorter, c \in statChars}

\* The arguments: strings, undefined, and an object.
StatValues == {Str(t) : t \in StatTexts(MaxStatLen)} \cup {Undefined, Obj(<<>>)}

UtilsInit ==
    /\ SessionIdle
    /\ RepeatedIdle
    /\ StepwiseIdle
    /\ call \in {[fn |-> "none", args |-> <<original, compressed, isKanji>>] :
                    original \in StatValues, compressed \in StatValues, isKanji \in BOOLEAN}
    /\ ret = None

\* estimateTokens(compressed, isKanji) for a string
EstimateTokens ==
    /\ call.fn = "none"
    /\ call.args[2].type = "string"
    /\ call' = [call EXCEPT !.fn = "estimateTokens"]
    /\ ret' = Return(estimateTokens(call.args[2].str, call.args[3]))
    /\ UNCHANGED <<session, repeated, stepwise>>

\* getCompressionStats(original, compressed, isKanji)
GetCompressionStats ==
    /\ call.fn = "none"
    /\ call' = [call EXCEPT !.fn = "getCompressionStats"]
    /\ ret' = getCompressionStats(call.args[1], call.args[2], call.args[3])
    /\ UNCHANGED <<session, repeated, stepwise>>

UtilsNext ==
    \/ EstimateTokens
    \/ GetCompressionStats

UtilsSpec == UtilsInit /\ [][UtilsNext]_vars

\* The least k with d * k >= n.
LeastCover(n, d) == CHOOSE k \in 0..n : d * k >= n /\ \A j \in 0..(k - 1) : d * j < n

\* C12: estimateTokens(text, false) is ceil(length / 4) and
\* estimateTokens(text, true) is ceil(a / 4) + d, a the number of characters
\* up to 0xFF and d the number of the others; the estimate with isKanji is at
\* least the plain one, and for a non-empty text both are between 1 and the
\* length of the text.
C12_EstimateTokens ==
    call.fn = "estimateTokens" =>
        LET text == call.args[2].str
            n == Len(text)
            a == Cardinality({i \in 1..n : text[i] <= 255})
            d == n - a
            plain == LeastCover(n, 4)
            dense == LeastCover(a, 4) + d
        IN  /\ ret.val = IF call.args[3] THEN dense ELSE plain
            /\ dense >= plain
            /\ n > 0 => ret.val >= 1 /\ ret.val <= n

\* a text of five characters, letters and kanji, estimated as dense script
C12_Witness ==
    /\ call.fn = "estimateTokens"
    /\ call.args[3]
    /\ Len(call.args[2].str) = 5
    /\ ret.val = 4

\* C13: on two non-empty strings getCompressionStats returns the two
\* lengths, their difference, the difference of the two token estimates, and
\* a tokenSavingsPercent that is an integer from 0 to 100, 0 when the
\* compressed estimate is not smaller than the original one; it throws when
\* an argument is empty or no string.
C13_CompressionStats ==
    call.fn = "getCompressionStats" =>
        LET original == call.args[1]
            compressed == call.args[2]
            NonEmptyString(v) == v.type = "string" /\ Len(v.str) > 0
        IN  IF NonEmptyString(original) /\ NonEmptyString(compressed)
            THEN /\ ret.ok
                 /\ ret.val.originalChars = Len(original.str)
                 /\ ret.val.compressedChars = Len(compressed.str)
                 /\ ret.val.charReduction = ret.val.originalChars - ret.val.compressedChars
                 /\ ret.val.tokenReduction = ret.val.originalTokens - ret.val.compressedTokens
                 /\ ret.val.tokenSavingsPercent \in 0..100
                 /\ ret.val.compressedTokens >= ret.val.originalTokens
                        => ret.val.tokenSavingsPercent = 0
            ELSE ~ret.ok

\* five letters compressed to one kanji: two tokens become one
C13_Witness ==
    /\ call.fn = "getCompressionStats"
    /\ ret.ok
    /\ ret.val.originalTokens = 2
    /\ ret.val.tokenSavingsPercent = 50

(***************************************************************************)
(* One SemanticKanjiModule instance called several times                   *)
(***************************************************************************)

\* The number of calls made on the instance.
MaxCalls == 2

repeatCodes == {<<>>, <<118, 97, 114>> (* var *), <<120>> (* x *), <<46, 112, 111, 112>> (* .pop *)}

repeatMethods == {Undefined, Str(kanjiMethod), Str(semanticMethod)}

\* this.config after compress(code, method): compress assigns no field of
\* the instance (lines 47-71).
configAfterCompress_remembering(cfg, method) ==
    IF method.type = "string" THEN [cfg EXCEPT !.defaultMethod = method.str] ELSE cfg
configAfterCompress(cfg, method) == cfg

RepeatInit ==
    /\ SessionIdle
    /\ SingleIdle
    /\ StepwiseIdle
    /\ self = config
    /\ calls = <<>>

\* instance.compress(code, method), or instance.compress(code)
CompressCall ==
    /\ Len(calls) < MaxCalls
    /\ \E code \in repeatCodes, method \in repeatMethods :
        /\ calls' = Append(calls, [fn |-> "compress", code |-> code, method |-> method,
                                   outcome |-> Call("compressOn", <<self, code, method, <<>>>>)])
        /\ self' = configAfterCompress(self, method)
    /\ UNCHANGED <<session, single, stepwise>>

\* instance.decompress(text) of the text the last call returned
DecompressCall ==
    /\ Len(calls) < MaxCalls
    /\ calls # <<>>
    /\ calls[Len(calls)].outcome.ok
    /\ calls' = Append(calls, [fn |-> "decompress", code |-> calls[Len(calls)].outcome.val,
                               method |-> Str(autoMethod),
                               outcome |-> Call("instance_decompress", <<calls[Len(calls)].outcome.val,
                                                               Str(autoMethod), <<>>>>)])
    /\ UNCHANGED self
    /\ UNCHANGED <<session, single, stepwise>>

RepeatNext ==
    \/ CompressCall
    \/ DecompressCall

RepeatSpec == RepeatInit /\ [][RepeatNext]_vars

\* What the call returns when it is the first call on a new instance.
FirstOutcome(c) ==
    IF c.fn = "compress" THEN Call("compressOn", <<config, c.code, c.method, <<>>>>)
    ELSE Call("instance_decompress", <<c.code, c.method, <<>>>>)

requestCodes == {<<>>, <<118, 97, 114>> (* var *), <<120>> (* x *), <<46, 112, 111, 112>> (* .pop *), <<118, 97, 114, 32, 120>> (* var x *), <<25968>> (* U+6570 *), <<25968, 32, 120, 9875>> (* U+6570 xU+2693 *), <<9875>> (* U+2693 *)}

emptyBody == [code |-> Undefined, originalCode |-> Undefined, isCompressed |-> Undefined,
              compressionMethod |-> Undefined]

requests ==
    {[hasBody |-> TRUE, body |-> [emptyBody EXCEPT !.code = Str(c)], headers |-> <<>>] :
        c \in requestCodes}
    \cup {[hasBody |-> TRUE, body |-> emptyBody, headers |-> <<>>],
          [hasBody |-> FALSE, body |-> emptyBody, headers |-> <<>>]}

\* the options given to createMiddleware
middlewareMethods == {kanjiMethod, semanticMethod, otherMethod}

optionSets ==
    {Merge(a, Merge(b, c)) :
        a \in {<<>>} \cup {[method |-> m] : m \in middlewareMethods},
        b \in {<<>>, [compressRequestBody |-> FALSE]},
        c \in {<<>>, [addPromptHeader |-> FALSE]}}

MiddlewareInit ==
    /\ SessionIdle
    /\ RepeatedIdle
    /\ StepwiseIdle
    /\ call \in {[fn |-> "none", args |-> <<options, req>>] :
                    options \in optionSets, req \in requests}
    /\ ret = None

\* instance.createMiddleware(options)(req, res, next)
Middleware ==
    /\ call.fn = "none"
    /\ call' = [call EXCEPT !.fn = "middleware"]
    /\ ret' = Return(Call("middleware", <<self, call.args[1], call.args[2]>>))
    /\ UNCHANGED <<session, repeated, stepwise>>

MiddlewareNext ==
    \/ Middleware

MiddlewareSpec == MiddlewareInit /\ [][MiddlewareNext]_vars

\* C14 as stated: every request whose body.code is a string not detected as
\* compressed leaves the middleware with body.originalCode the code as
\* received, body.code its compressed form and body.isCompressed true; a code
\* detected as compressed is left as it is; next is called exactly once.
C14_EveryStringCompressed ==
    call.fn = "middleware" =>
        LET req == call.args[2]
            opts == Call("middlewareOptions", <<config, call.args[1]>>)
            code == req.body.code
            after == ret.val.req.body
            compressed == Call("compressOn", <<config, code.str, Str(opts.method), <<>>>>)
        IN  /\ ret.val.nextCalls = 1
            /\ req.hasBody /\ code.type = "string" /\ ~Call("isCompressed", <<code.str>>)
                  => /\ after.originalCode = code
                     /\ compressed.ok
                     /\ after.code = Str(compressed.val)
                     /\ after.isCompressed = True
            /\ req.hasBody /\ code.type = "string" /\ Call("isCompressed", <<code.str>>)
                  => after.code = code

\* C14, amended: next is called exactly once on every request.  The body is
\* handled when the compressRequestBody option is on and body.code is a
\* non-empty string; a body that is not handled is left as it is.  A handled
\* code not detected as compressed is kept in body.originalCode; when compress
\* returns for the method of the options, body.code is its result and
\* body.isCompressed is true, and when compress throws, body.code stays and
\* body.isCompressed is not set.  A handled code detected as compressed is
\* left as it is, and originalCode and isCompressed are not set.
C14_Middleware ==
    call.fn = "middleware" =>
        LET req == call.args[2]
            opts == Call("middlewareOptions", <<config, call.args[1]>>)
            code == req.body.code
            after == ret.val.req.body
            handled == /\ opts.compressRequestBody
                       /\ req.hasBody
                       /\ code.type = "string"
                       /\ code.str # <<>>
            compressed == Call("compressOn", <<config, code.str, Str(opts.method), <<>>>>)
        IN  /\ ret.val.nextCalls = 1
            /\ ~handled => after = req.body
            /\ handled /\ ~Call("isCompressed", <<code.str>>)
                  => /\ after.originalCode = code
                     /\ IF compressed.ok
                        THEN after.code = Str(compressed.val) /\ after.isCompressed = True
                        ELSE after.code = code /\ after.isCompressed = Undefined
            /\ handled /\ Call("isCompressed", <<code.str>>)
                  => /\ after.code = code
                     /\ after.originalCode = Undefined
                     /\ after.isCompressed = Undefined

\* the request { code: 'var x' } through a middleware with the default
\* options: compressed, and passed on
C14_Witness ==
    /\ call.fn = "middleware"
    /\ call.args[1] = <<>>
    /\ call.args[2].body.code = Str(<<118, 97, 114, 32, 120>> (* var x *))
    /\ ret.val.req.body.originalCode = Str(<<118, 97, 114, 32, 120>> (* var x *))
    /\ ret.val.req.body.code # Str(<<118, 97, 114, 32, 120>> (* var x *))
    /\ ret.val.req.body.isCompressed = True
    /\ ret.val.nextCalls = 1

(***************************************************************************)
(* Character-tier decompress, one dictionary entry at a time:              *)
(* decompress of js-kanji-decompressor.js, and decompress of the second    *)
(* module of part_006                                                      *)
(***************************************************************************)

\* The documents: replacements of two and more characters whose parts are
\* replacements of other entries, one character, and a text with no kanji.
reverseDocuments == {<<20301, 32622>> (* U+4F4DU+7F6E *), <<32034, 24341, 20301, 32622>> (* U+7D22U+5F15U+4F4DU+7F6E *), <<21462, 28040>> (* U+53D6U+6D88 *), <<25968>> (* U+6570 *), <<120>> (* x *)}

reverseModules == {"js-kanji-decompressor", "js-kanji-compressor"}

ReverseInit ==
    /\ SessionIdle
    /\ SingleIdle
    /\ RepeatedIdle
    /\ pc = "start"
    /\ work \in {[module |-> m, options |-> [formatOutput |-> f], source |-> d,
                  text |-> d, comments |-> <<>>, applied |-> <<>>] :
                    m \in reverseModules, f \in BOOLEAN, d \in reverseDocuments}

\* decompress(source, options) up to its loop over the entries
BeginDecompress ==
    /\ pc = "start"
    /\ LET before == Call("beforeEntries", <<work.module, work.source, work.options>>)
       IN  work' = [work EXCEPT !.text = before.text, !.comments = before.comments]
    /\ pc' = "entries"
    /\ UNCHANGED <<session, single, repeated>>

\* one turn of the loop: the next of the sorted entries
ReverseEntry ==
    /\ pc = "entries"
    /\ Len(work.applied) < Len(Call("entriesOf", <<work.module>>))
    /\ LET entry == Call("entriesOf", <<work.module>>)[Len(work.applied) + 1]
       IN  work' = [work EXCEPT !.text = Call("reverseEntry", <<work.text, entry>>),
                                !.applied = Append(work.applied, entry[1])]
    /\ UNCHANGED pc
    /\ UNCHANGED <<session, single, repeated>>

\* the loop is over: the fixes and the formatting, and decompress returns
FinishDecompress ==
    /\ pc = "entries"
    /\ Len(work.applied) = Len(Call("entriesOf", <<work.module>>))
    /\ work' = [work EXCEPT !.text = Call("afterEntries", <<work.module, work.text, work.comments,
                                                  work.options>>)]
    /\ pc' = "done"
    /\ UNCHANGED <<session, single, repeated>>

ReverseNext ==
    \/ BeginDecompress
    \/ ReverseEntry
    \/ FinishDecompress

ReverseSpec == ReverseInit /\ [][ReverseNext]_vars

\* The replacements applied so far are in order of length: each one at
\* least as long as the next (longestFirst) or at most as long.
InLengthOrder(applied, longestFirst) ==
    \A i \in 1..(Len(applied) - 1) :
        IF longestFirst THEN Len(applied[i]) >= Len(applied[i + 1])
        ELSE Len(applied[i]) <= Len(applied[i + 1])

C17_LongerRestored ==
    pc = "done" /\ work.module = "js-kanji-compressor" /\ ~work.options.formatOutput
        => \A a, b \in 1..Len(Call("reverseDict", <<>>)) :
              /\ Call("reverseDict", <<>>)[a][1] = work.source
              /\ Call("reverseDict", <<>>)[b][1] # Call("reverseDict", <<>>)[a][1]
              /\ Call("Includes", <<Call("reverseDict", <<>>)[a][1], Call("reverseDict", <<>>)[b][1]>>)
              => work.text = Call("reverseDict", <<>>)[a][2]

(***************************************************************************)
(* applyKanjiSubstitution on its own                                       *)
(***************************************************************************)

\* The texts: at most two of the pieces, the word target, and two keys of which one begins the other.
substitutionPieces == {<<103, 101, 116>> (* get *), <<102, 111, 114>> (* for *), <<102, 111, 114, 69, 97, 99, 104>> (* forEach *), <<120>> (* x *), <<32>> (*   *), <<233>> (* U+00E9 *)}

substitutionTexts ==
    {<<>>, <<116, 97, 114, 103, 101, 116>> (* target *), <<102, 111, 114, 32, 102, 111, 114, 69, 97, 99, 104>> (* for forEach *)} \cup substitutionPieces
    \cup {a \o b : a \in substitutionPieces, b \in substitutionPieces}

substitutionOrders == {"shortestFirst", "unsorted"}

SubstitutionInit ==
    /\ SessionIdle
    /\ RepeatedIdle
    /\ StepwiseIdle
    /\ call \in {[fn |-> "none", args |-> <<text>>] : text \in substitutionTexts}
    /\ ret = None

\* applyKanjiSubstitution(code)
ApplyKanjiSubstitution ==
    /\ call.fn = "none"
    /\ call' = [call EXCEPT !.fn = "applyKanjiSubstitution"]
    /\ ret' = Return(Call("applyKanjiSubstitution", <<call.args[1]>>))
    /\ UNCHANGED <<session, repeated, stepwise>>

\* the loop of applyKanjiSubstitution over the entries in another order
SubstituteInOrder ==
    /\ call.fn = "none"
    /\ \E order \in substitutionOrders :
        /\ call' = [call EXCEPT !.fn = order]
        /\ ret' = Return(Call("substituteInOrder", <<call.args[1], order>>))
    /\ UNCHANGED <<session, repeated, stepwise>>

SubstitutionNext ==
    \/ ApplyKanjiSubstitution
    \/ SubstituteInOrder

SubstitutionSpec == SubstitutionInit /\ [][SubstitutionNext]_vars

\* A letter, a digit or an underscore: the ASCII ones, and with accented the
\* letters of Latin-1 and Latin Extended-A too.
WordCharacter(c, accented) ==
    \/ IsWord(c)
    \/ accented /\ c >= 192 /\ c <= 383 /\ c \notin {215, 247}

\* The text with every whole word that is a key of kanjiDict replaced by the
\* key's replacement, a whole word being a longest run of word characters.
WholeWordsReplaced(text, accented) ==
    LET n == Len(text)
        InWord(p) == p >= 1 /\ p <= n /\ WordCharacter(text[p], accented)
        Starts(p) == InWord(p) /\ ~InWord(p - 1)
        EndOf(p) == CHOOSE e \in p..n : (\A q \in p..e : InWord(q)) /\ ~InWord(e + 1)
        Replacement(w) ==
            IF \E i \in 1..Len(Call("kanjiDict", <<>>)) : Call("kanjiDict", <<>>)[i][1] = w
            THEN Call("kanjiDict", <<>>)[CHOOSE i \in 1..Len(Call("kanjiDict", <<>>)) : Call("kanjiDict", <<>>)[i][1] = w][2]
            ELSE w
        Piece(p) == IF Starts(p) THEN Replacement(SubSeq(text, p, EndOf(p)))
                    ELSE IF InWord(p) THEN <<>>
                    ELSE <<text[p]>>
        Upto[p \in 0..n] == IF p = 0 THEN <<>> ELSE Upto[p - 1] \o Piece(p)
    IN  Upto[n]

\* C21: applyKanjiSubstitution replaces a key of the dictionary where it is
\* a whole word and nowhere else: an occurrence with a letter, a digit or an
\* underscore right before or after it stays, every other occurrence is
\* replaced, and a text without such an occurrence is returned as it is.
C21_WholeWordOnly ==
    call.fn = "applyKanjiSubstitution" =>
        ret = Return(WholeWordsReplaced(call.args[1], TRUE))

\* The same with the letters a to z and A to Z for the letters.
C21_AsciiWholeWordOnly ==
    call.fn = "applyKanjiSubstitution" =>
        ret = Return(WholeWordsReplaced(call.args[1], FALSE))

\* C29: the keys of the dictionary hold word characters only and the
\* replacements none, and the loop of applyKanjiSubstitution returns for
\* every text the same in the other orders of the entries as in the order
\* longest key first.
C29_OrderIndependent ==
    /\ \A i \in 1..Len(Call("kanjiDict", <<>>)) :
        /\ \A p \in 1..Len(Call("kanjiDict", <<>>)[i][1]) : IsWord(Call("kanjiDict", <<>>)[i][1][p])
        /\ \A p \in 1..Len(Call("kanjiDict", <<>>)[i][2]) : ~IsWord(Call("kanjiDict", <<>>)[i][2][p])
    /\ call.fn \in substitutionOrders =>
        ret = Return(Call("applyKanjiSubstitution", <<call.args[1]>>))

\* forEach with the rule of the shorter key for tried before its own, and
\* the two keys in one text
C29_Witness ==
    /\ call.fn = "shortestFirst"
    /\ call.args[1] = <<102, 111, 114, 32, 102, 111, 114, 69, 97, 99, 104>> (* for forEach *)
    /\ ret = Return(<<32368, 32, 21508>> (* U+7E70 U+5404 *))

\* The original reverseDict holds for a replacement.
OriginalOf(kanji) ==
    Call("reverseDict", <<>>)[CHOOSE i \in 1..Len(Call("reverseDict", <<>>)) : Call("reverseDict", <<>>)[i][1] = kanji][2]

\* C24: no two keys of kanjiDict have the same replacement, so reverseDict
\* has an entry for each key, and it gives for the replacement that
\* applyKanjiSubstitution wrote for a key that key.
C24_Injective ==
    call.fn = "applyKanjiSubstitution" =>
        /\ \A i, j \in 1..Len(Call("kanjiDict", <<>>)) : Call("kanjiDict", <<>>)[i][2] = Call("kanjiDict", <<>>)[j][2] => i = j
        /\ Len(Call("reverseDict", <<>>)) = Len(Call("kanjiDict", <<>>))
        /\ \A i \in 1..Len(Call("kanjiDict", <<>>)) :
            call.args[1] = Call("kanjiDict", <<>>)[i][1] => OriginalOf(ret.val) = call.args[1]

(***************************************************************************)
(* formatCode of js-kanji-decompressor.js, one line at a time              *)
(***************************************************************************)

\* The number of lines of the code given to formatCode.
MaxLines == 3

\* The lines: an opening and a closing one of each kind, a statement, a
\* line of spaces, and a line that begins with an operator.
formatLines == {<<97, 123>> (* a{ *), <<125>> (* } *), <<98, 91>> (* b[ *), <<93>> (* ] *), <<120, 59>> (* x; *), <<32, 32>> (*    *), <<61, 49>> (* =1 *)}

RECURSIVE FormatTexts(_)
FormatTexts(n) ==
    IF n = 1 THEN formatLines
    ELSE {t \o <<10>> (* \n *) \o l : t \in FormatTexts(n - 1), l \in formatLines}

FormatInit ==
    /\ SessionIdle
    /\ SingleIdle
    /\ RepeatedIdle
    /\ pc = "format"
    /\ work \in {[code |-> code, lines |-> <<>>, i |-> 0, formattedLines |-> <<>>,
                  indentLevel |-> 0, text |-> <<>>] :
                    code \in UNION {FormatTexts(n) : n \in 1..MaxLines}}

\* formatCode(code) up to its loop: the lines of the code
BeginFormat ==
    /\ pc = "format"
    /\ work' = [work EXCEPT !.lines = Call("Split", <<work.code, <<10>> (* \n *)>>), !.i = 1]
    /\ pc' = "lines"
    /\ UNCHANGED <<session, single, repeated>>

\* one turn of the loop
FormatLine ==
    /\ pc = "lines"
    /\ work.i <= Len(work.lines)
    /\ LET st == Call("formatLine", <<[formattedLines |-> work.formattedLines,
                             indentLevel |-> work.indentLevel], work.lines, work.i>>)
       IN  work' = [work EXCEPT !.formattedLines = st.formattedLines,
                                !.indentLevel = st.indentLevel,
                                !.i = work.i + 1]
    /\ UNCHANGED pc
    /\ UNCHANGED <<session, single, repeated>>

\* the loop is over: formatCode returns the lines joined
FinishFormat ==
    /\ pc = "lines"
    /\ work.i > Len(work.lines)
    /\ work' = [work EXCEPT !.text = Call("Join", <<work.formattedLines, <<10>> (* \n *)>>)]
    /\ pc' = "formatted"
    /\ UNCHANGED <<session, single, repeated>>

FormatNext ==
    \/ BeginFormat
    \/ FormatLine
    \/ FinishFormat

FormatSpec == FormatInit /\ [][FormatNext]_vars

\* The number of spaces a line begins with.
LeadingSpaces(line) ==
    Cardinality({p \in 1..Len(line) : \A q \in 1..p : line[q] = 32})

\* What a turn of the loop may do according to C30: an input line that is
\* empty after trimming adds no line; any other adds a line, which begins
\* with two spaces for each level, the level being the one before the turn,
\* or one less (not below zero) when the line starts with } or ], and the
\* level after the turn is that level, or one more when the line ends in {
\* or [.  withOperator: a line that begins with = is left out of the rule.
ConsistentTurn(w, formattedLines, indentLevel, withOperator) ==
    LET before == Len(w.formattedLines)
        emitted == formattedLines[before + 1]
        written == SubSeq(emitted, LeadingSpaces(emitted) + 1, Len(emitted))
        falls == written # <<>> /\ written[1] \in {125, 93}
        level == IF falls THEN (IF w.indentLevel > 0 THEN w.indentLevel - 1 ELSE 0)
                 ELSE w.indentLevel
        rises == written # <<>> /\ written[Len(written)] \in {123, 91}
    IN  /\ indentLevel >= 0
        /\ IF Call("Trim", <<w.lines[w.i]>>) = <<>>
           THEN formattedLines = w.formattedLines /\ indentLevel = w.indentLevel
           ELSE /\ Len(formattedLines) > before
                /\ SubSeq(formattedLines, 1, before) = w.formattedLines
                /\ written # <<>>
                /\ withOperator \/ written[1] # 61 => LeadingSpaces(emitted) = 2 * level
                /\ indentLevel = IF rises THEN level + 1 ELSE level

\* C30: in every turn of the loop of formatCode the level is not negative,
\* the line added begins with exactly two spaces for each level at that
\* line, the level rises by one after a line ending in { or [ and falls by
\* one, not below zero, at a line starting with } or ], and an input line
\* that is empty after trimming adds no line.
C30_Indentation ==
    [][pc = "lines" /\ pc' = "lines"
        => ConsistentTurn(work, work'.formattedLines, work'.indentLevel, TRUE)]_vars

\* The same for the lines that do not begin with the operator =.
C30_IndentationButOperator ==
    [][pc = "lines" /\ pc' = "lines"
        => ConsistentTurn(work, work'.formattedLines, work'.indentLevel, FALSE)]_vars

(***************************************************************************)
(* The detectors of semantic-kanji.js and index.js, and decompress of      *)
(* index.js, on documents                                                  *)
(***************************************************************************)

\* The documents: the target of each entry of semantic-patterns.js with
\* arguments for its placeholders, and texts with and without a kanji of the
\* dictionary and the anchor.
targetDocuments == {Call("Instance", <<Call("semanticPatterns", <<>>)[e][2], <<>>>>) : e \in 1..Len(Call("semanticPatterns", <<>>))}

otherDocuments == {<<120>> (* x *), <<25968>> (* U+6570 *), <<25968, 32, 120, 9875>> (* U+6570 xU+2693 *), <<120, 9875>> (* xU+2693 *), <<25968, 32, 120, 61, 49, 9875>> (* U+6570 x=1U+2693 *)}

documents == targetDocuments \cup otherDocuments

DetectInit ==
    /\ SessionIdle
    /\ RepeatedIdle
    /\ StepwiseIdle
    /\ call \in {[fn |-> "none", args |-> <<document>>] : document \in documents}
    /\ ret = None

\* isSemanticKanjiCompressed(code) of semantic-kanji.js
IsSemanticKanjiCompressed ==
    /\ call.fn = "none"
    /\ call' = [call EXCEPT !.fn = "isSemanticKanjiCompressed"]
    /\ ret' = Return(isSemanticKanjiCompressed(call.args[1]))
    /\ UNCHANGED <<session, repeated, stepwise>>

\* containsSemanticSymbols(text) of index.js
ContainsSemanticSymbols ==
    /\ call.fn = "none"
    /\ call' = [call EXCEPT !.fn = "containsSemanticSymbols"]
    /\ ret' = Return(containsSemanticSymbols(call.args[1]))
    /\ UNCHANGED <<session, repeated, stepwise>>

\* detectCompressionMethod(code) of semantic-kanji.js
DetectCompressionMethod ==
    /\ call.fn = "none"
    /\ call' = [call EXCEPT !.fn = "detectCompressionMethod"]
    /\ ret' = Call("detectCompressionMethod", <<call.args[1]>>)
    /\ UNCHANGED <<session, repeated, stepwise>>

\* decompress(code, 'auto') of index.js
IndexDecompressAuto ==
    /\ call.fn = "none"
    /\ call' = [fn |-> "index.decompress",
                args |-> <<call.args[1], Str(autoMethod), <<>>>>]
    /\ ret' = Call("index_decompress", <<call.args[1], Str(autoMethod), <<>>>>)
    /\ UNCHANGED <<session, repeated, stepwise>>

\* decompress(code, 'semantic-kanji', { formatOutput }) of index.js
IndexDecompress ==
    /\ call.fn = "none"
    /\ \E formatOutput \in BOOLEAN :
        LET options == [formatOutput |-> formatOutput]
        IN  /\ call' = [fn |-> "index.decompress",
                        args |-> <<call.args[1], Str(semanticMethod), options>>]
            /\ ret' = Call("index_decompress", <<call.args[1], Str(semanticMethod), options>>)
    /\ UNCHANGED <<session, repeated, stepwise>>

DetectNext ==
    \/ IsSemanticKanjiCompressed
    \/ ContainsSemanticSymbols
    \/ DetectCompressionMethod
    \/ IndexDecompressAuto
    \/ IndexDecompress

DetectSpec == DetectInit /\ [][DetectNext]_vars

\* C26: a text that holds the target of an entry of the pattern dictionary
\* and does not end with the anchor is taken for a pattern-tier document by
\* isSemanticKanjiCompressed and by containsSemanticSymbols.
C26_TargetsDetected ==
    /\ call.fn \in {"isSemanticKanjiCompressed", "containsSemanticSymbols"}
    /\ call.args[1] \in targetDocuments
    => ret = Return(TRUE)

\* C27: for every text decompress(text, 'auto') of index.js and
\* detectCompressionMethod(text) select the same: the reversal of the
\* pattern tier, the reversal of the character tier, or the error that the
\* method cannot be determined.
C27_DetectorsAgree ==
    call.fn = "detectCompressionMethod" => ret = Call("index_autoDetect", <<call.args[1]>>)

\* C28: decompress(code, 'semantic-kanji', options) of index.js returns what
\* SemanticKanjiModule.decompress(code, 'semantic-kanji', options) returns,
\* so with formatOutput false what decompressWithPatterns returns for the
\* code without formatting.
C28_OptionsForwarded ==
    call.fn = "index.decompress" /\ call.args[2] = Str(semanticMethod) =>
        /\ ret = Call("static_decompress", <<call.args[1], call.args[2], call.args[3]>>)
        /\ ~call.args[3].formatOutput =>
              ret = Call("decompressWithPatterns", <<call.args[1], [formatOutput |-> FALSE,
                                                           preserveComments |-> TRUE]>>)

(***************************************************************************)
(* The pattern tier, statement by statement                                *)
(***************************************************************************)

\* The entries whose templates are written out as sources: two with
\* placeholders and one without.
sourceEntries == {10, 22, 48}

\* The sources given to compressWithPatterns: plain texts, and the code that
\* the template of an entry describes.
patternSources ==
    {<<120>> (* x *), <<118, 97, 114, 32, 120>> (* var x *), <<118, 97, 114, 32, 32, 120, 32, 61, 32, 49, 59, 32, 47, 47, 32, 118, 97, 114>> (* var  x = 1; // var *)}
    \cup {Call("Instance", <<Call("semanticPatterns", <<>>)[e][1], <<>>>>) : e \in sourceEntries}

\* The documents given to decompressWithPatterns: the targets of entries
\* with arguments, with the marker, and documents without a pattern symbol.
patternDocuments ==
    {Call("Instance", <<Call("semanticPatterns", <<>>)[e][2], <<>>>>) \o anchor : e \in {3, 11, 48}}
    \cup {<<25968, 32, 120, 9875>> (* U+6570 xU+2693 *), <<120, 9875>> (* xU+2693 *), <<9875>> (* U+2693 *)}

PatternInit ==
    /\ SessionIdle
    /\ SingleIdle
    /\ RepeatedIdle
    /\ pc = "run"
    /\ work \in {[fn |-> "compressWithPatterns", code |-> code,
                  options |-> config.compressOptions,
                  text |-> code, step |-> 1, i |-> 1, error |-> <<>>] :
                    code \in patternSources}
           \cup {[fn |-> "decompressWithPatterns", code |-> code,
                  options |-> [formatOutput |-> formatOutput, preserveComments |-> TRUE],
                  text |-> code, step |-> 1, i |-> 1, error |-> <<>>] :
                    code \in patternDocuments, formatOutput \in BOOLEAN}

\* one turn of the loop over the entries of semanticPatterns
PatternTurn ==
    /\ pc = "run"
    /\ work.step <= Len(Call("stepsOf", <<work.fn>>))
    /\ Call("stepsOf", <<work.fn>>)[work.step] = "patterns"
    /\ work.i <= Len(Call("semanticPatterns", <<>>))
    /\ work' = [work EXCEPT
                  !.text = Call("patternStep", <<work.fn, "patterns", work.text, work.options, work.i>>).val,
                  !.i = work.i + 1]
    /\ UNCHANGED pc
    /\ UNCHANGED <<session, single, repeated>>

\* the loop is over
PatternsDone ==
    /\ pc = "run"
    /\ work.step <= Len(Call("stepsOf", <<work.fn>>))
    /\ Call("stepsOf", <<work.fn>>)[work.step] = "patterns"
    /\ work.i > Len(Call("semanticPatterns", <<>>))
    /\ work' = [work EXCEPT !.step = work.step + 1]
    /\ UNCHANGED pc
    /\ UNCHANGED <<session, single, repeated>>

\* a statement other than the loop; an error it throws leaves the function
PatternStatement ==
    /\ pc = "run"
    /\ work.step <= Len(Call("stepsOf", <<work.fn>>))
    /\ Call("stepsOf", <<work.fn>>)[work.step] # "patterns"
    /\ LET result == Call("patternStep", <<work.fn, Call("stepsOf", <<work.fn>>)[work.step], work.text,
                                 work.options, work.i>>)
       IN  IF result.ok
           THEN /\ work' = [work EXCEPT !.text = result.val, !.step = work.step + 1]
                /\ UNCHANGED pc
           ELSE /\ work' = [work EXCEPT !.error = result.err]
                /\ pc' = "thrown"
    /\ UNCHANGED <<session, single, repeated>>

\* return compressed / return decompressed
PatternReturn ==
    /\ pc = "run"
    /\ work.step > Len(Call("stepsOf", <<work.fn>>))
    /\ pc' = "returned"
    /\ UNCHANGED work
    /\ UNCHANGED <<session, single, repeated>>

PatternNext ==
    \/ PatternTurn
    \/ PatternsDone
    \/ PatternStatement
    \/ PatternReturn

PatternSpec == PatternInit /\ [][PatternNext]_vars

\* The statements that have run so far, the loop once its first turn is over.
StepsRun ==
    LET steps == Call("stepsOf", <<work.fn>>)
        n == IF work.step <= Len(steps) /\ steps[work.step] = "patterns" /\ work.i > 1
             THEN work.step ELSE work.step - 1
    IN  SubSeq(steps, 1, n)

\* step a has run, and b has not run before it
RanBefore(a, b) ==
    \E p \in 1..Len(StepsRun) :
        StepsRun[p] = a /\ \A q \in 1..p : StepsRun[q] # b

\* The loop over the entries has begun or is over.
InStepsRun(a) == \E p \in 1..Len(StepsRun) : StepsRun[p] = a

C18_LongestTemplateFirst ==
    work.fn = "compressWithPatterns" =>
        \A j, k \in 1..(work.i - 1) :
            j < k => Len(Call("semanticPatterns", <<>>)[j][1]) >= Len(Call("semanticPatterns", <<>>)[k][1])

\* C19 as stated: compressWithPatterns runs the formatter before the loop
\* over the patterns.
C19_FormatterFirst ==
    work.fn = "compressWithPatterns" /\ InStepsRun("patterns")
        => RanBefore("preprocess", "patterns")

\* C19: compressWithPatterns runs the loop over the patterns on the source
\* as it is given, then the formatter (preprocess), then the character
\* substitution, then the whitespace optimization, and appends the marker;
\* what it returns is what these statements make of the source.
C19_PatternsFirst ==
    work.fn = "compressWithPatterns" =>
        /\ InStepsRun("preprocess") => RanBefore("patterns", "preprocess")
        /\ InStepsRun("substitution") => RanBefore("preprocess", "substitution")
        /\ InStepsRun("whitespace") => RanBefore("substitution", "whitespace")
        /\ InStepsRun("marker") => RanBefore("whitespace", "marker")
        /\ pc = "returned" =>
              /\ Len(StepsRun) = 5
              /\ work.text = Call("compressWithPatterns", <<work.code, work.options>>)

\* the debounce function as the template writes it, indented, is replaced
\* by its symbol
C19_Witness ==
    /\ work.fn = "compressWithPatterns"
    /\ pc = "returned"
    /\ work.code = Call("semanticPatterns", <<>>)[48][1]
    /\ work.text = Call("semanticPatterns", <<>>)[48][2] \o anchor

\* C20: the rule made of a template matches the code the template
\* describes, whatever stands for the placeholders: after the turn of the
\* entry the code is no longer as it was.
C20_InstanceMatches ==
    \A e \in sourceEntries :
        /\ work.fn = "compressWithPatterns"
        /\ work.code = Call("Instance", <<Call("semanticPatterns", <<>>)[e][1], <<>>>>)
        /\ work.step = 1
        /\ work.i > e
        => work.text # work.code

\* C23: what compressWithPatterns returns holds a CJK ideograph, so that
\* containsKanji of index.js is true of it.
C23_IdeographInOutput ==
    work.fn = "compressWithPatterns" /\ pc = "returned" => containsKanji(work.text)

\* The characters of a text that are no ASCII characters.
Symbols(text) == {text[p] : p \in 1..Len(text)} \ 0..127

\* The characters the targets of the pattern dictionary are written with.
PatternSymbols == UNION {Symbols(Call("semanticPatterns", <<>>)[e][2]) : e \in 1..Len(Call("semanticPatterns", <<>>))}

\* C25: no character of a target of the pattern dictionary is a key of the
\* reverse map, and the reversal of the characters leaves the pattern
\* symbols of a document as they are.
C25_SymbolsKept ==
    /\ work.fn = "decompressWithPatterns"
    /\ pc = "run"
    /\ work.step = 3
    /\ work.i = 1
    => /\ \A e \in 1..Len(Call("semanticPatterns", <<>>)), r \in 1..Len(Call("reverseDict", <<>>)) :
            Symbols(Call("reverseDict", <<>>)[r][1]) \cap Symbols(Call("semanticPatterns", <<>>)[e][2]) = {}
       /\ Symbols(work.code) \cap PatternSymbols \subseteq Symbols(work.text)
====
